---- MODULE Spec2Model ----
(***************************************************************************)
(* A model of the match-diagram evaluator and its mutation engine:          *)
(*   - RegisterFile / RegisterSet            (src/src/registers.rs)         *)
(*   - Table / Database                      (src/src/table.rs, database.rs)*)
(*   - GraphDiagram                          (src/src/graph_diagram.rs)     *)
(*   - Evaluation: run_multi, run_pending, rerun_from                       *)
(*                                           (src/src/evaluation.rs)        *)
(*   - apply_mutation                        (src/src/mutate.rs)            *)
(*   - StepProblem: rescore, mutate_and_rescore                             *)
(*                                           (src/src/step_problem.rs)      *)
(*                                                                         *)
(* Encoding of values.  Value::Symbol(n) is the natural number n,           *)
(* Value::Nil is Nil, and Option::None (an unbound register, a term         *)
(* without target) is None.  NodeIndex(n) is the natural number n; the      *)
(* n-th element of a Rust Vec is element n+1 of the TLA+ sequence.          *)
(***************************************************************************)
EXTENDS Integers, Sequences, FiniteSets, TLC

Nil == -1
None == -2

DEFAULT_MAX_DEPTH == 8

(* The fitness of an individual that was never scored, i64::min_value() in  *)
(* the source.  TLC's integers are 32 bits wide; the model only needs a     *)
(* value below every fitness a rescoring can produce.                       *)
FITNESS_UNSCORED == -2147483647

----------------------------------------------------------------------------
(* Small helpers on sequences and sets.                                     *)

Min2(a, b) == IF a < b THEN a ELSE b

SetMax(S) == CHOOSE m \in S : \A k \in S : k <= m

SeqToSet(s) == {s[i] : i \in 1..Len(s)}

RECURSIVE SumSeq(_)
SumSeq(s) == IF s = <<>> THEN 0 ELSE s[1] + SumSeq(Tail(s))

Contains(s, x) == \E i \in 1..Len(s) : s[i] = x

Last(s) == s[Len(s)]

Front(s) == SubSeq(s, 1, Len(s) - 1)

Reverse(s) == [i \in 1..Len(s) |-> s[Len(s) + 1 - i]]

(* y, once x is evaluated: TLC evaluates operator arguments on demand, and  *)
(* a loop that hands its accumulator on unevaluated nests as deep as the    *)
(* loop is long.                                                            *)
Strict(x, y) == IF x = x THEN y ELSE y

----------------------------------------------------------------------------
(* RegisterFile: a Vec<Option<Value>> of fixed length.                      *)

RegisterFileNew(size) == [i \in 1..size |-> None]

(* A total order on register files, used only to enumerate the entries of   *)
(* a hash map in some order.                                                *)
RfLess(a, b) ==
    \E i \in 1..Len(a) :
        /\ a[i] < b[i]
        /\ \A j \in 1..(i - 1) : a[j] = b[j]

RECURSIVE SortRfs(_)
SortRfs(S) ==
    IF S = {} THEN <<>>
    ELSE LET m == CHOOSE x \in S : \A y \in S \ {x} : RfLess(x, y)
         IN <<m>> \o SortRfs(S \ {m})

(* The iteration orders of a HashMap the model distinguishes.  The order    *)
(* of std::collections::HashMap is unspecified; each loop over a            *)
(* RegisterSet takes one of these.                                          *)
IterOrders == {"asc", "desc"}

----------------------------------------------------------------------------
(* RegisterSet: HashMap<RegisterFile, State{weight, depth}>, a function     *)
(* from its keys to [weight, depth].                                        *)

RegisterSetNew == [rf \in {} |-> [weight |-> 0, depth |-> 0]]

(* RegisterSet::iter: the entries (rf, weight, depth) in a hash order.      *)
RegisterSetIter(rs, order) ==
    LET keys == SortRfs(DOMAIN rs)
        ks == IF order = "asc" THEN keys ELSE Reverse(keys)
    IN [i \in 1..Len(ks) |->
            [rf |-> ks[i], weight |-> rs[ks[i]].weight, depth |-> rs[ks[i]].depth]]

(* A push that overwrites the depth of a present register file instead of   *)
(* keeping the smaller one.                                                 *)
RegisterSetPushOverwrite(rs, rf, weight, depth) ==
    IF rf \in DOMAIN rs
    THEN LET w == rs[rf].weight + weight
         IN [set |-> IF w = 0
                     THEN [k \in (DOMAIN rs) \ {rf} |-> rs[k]]
                     ELSE [rs EXCEPT ![rf] = [weight |-> w, depth |-> depth]],
             new |-> FALSE]
    ELSE [set |-> [k \in (DOMAIN rs) \cup {rf} |->
                      IF k = rf THEN [weight |-> 0 + weight, depth |-> depth]
                      ELSE rs[k]],
          new |-> TRUE]

(* RegisterSet::push: the set after the push, and whether the file was new. *)
RegisterSetPush(rs, rf, weight, depth) ==
    IF rf \in DOMAIN rs
    THEN LET d == IF rs[rf].depth > depth THEN depth ELSE rs[rf].depth
             w == rs[rf].weight + weight
         IN [set |-> IF w = 0
                     THEN [k \in (DOMAIN rs) \ {rf} |-> rs[k]]
                     ELSE [rs EXCEPT ![rf] = [weight |-> w, depth |-> d]],
             new |-> FALSE]
    ELSE [set |-> [k \in (DOMAIN rs) \cup {rf} |->
                      IF k = rf THEN [weight |-> 0 + weight, depth |-> depth]
                      ELSE rs[k]],
          new |-> TRUE]

(* `for (r, w, d) in items { found |= rs.push(r, w, d) }`                   *)
RECURSIVE PushAll(_, _)
PushAll(rs, items) ==
    IF items = <<>> THEN [set |-> rs, new |-> FALSE]
    ELSE LET one == RegisterSetPush(rs, items[1].rf, items[1].weight, items[1].depth)
             rest == Strict(one, PushAll(one.set, Tail(items)))
         IN [set |-> rest.set, new |-> one.new \/ rest.new]

Keys(rs) == DOMAIN rs

----------------------------------------------------------------------------
(* Table and Database.  A Table is its column count, its rows in insertion  *)
(* order and the rows' weights; a Database maps the predicates that have a  *)
(* table to it.                                                             *)

TableNew(num_columns) ==
    [num_columns |-> num_columns, rows |-> <<>>, row_weights |-> <<>>]

(* Table::push: `assert!(row.len() == self.num_columns)` fails exactly when *)
(* TablePushAborts.                                                         *)
TablePushAborts(table, row) == Len(row) # table.num_columns

(* A push that keeps one row per distinct fact.                             *)
TablePushDedupe(table, row, weight) ==
    IF Contains(table.rows, row) THEN table
    ELSE [table EXCEPT !.rows = Append(@, row), !.row_weights = Append(@, weight)]

TablePush(table, row, weight) ==
    [table EXCEPT !.rows = Append(@, row), !.row_weights = Append(@, weight)]

DatabaseNew == [p \in {} |-> TableNew(0)]

InsertAborts(db, predicate, values) ==
    predicate \in DOMAIN db /\ TablePushAborts(db[predicate], values)

insert_fact_with_weight(db, predicate, values, weight) ==
    IF predicate \in DOMAIN db
    THEN [db EXCEPT ![predicate] = TablePush(@, values, weight)]
    ELSE [p \in (DOMAIN db) \cup {predicate} |->
             IF p = predicate
             THEN TablePush(TableNew(Len(values)), values, weight)
             ELSE db[p]]

insert_fact(db, predicate, values) ==
    insert_fact_with_weight(db, predicate, values, 1)

(* Database::facts_for_predicate: the rows of the predicate's table, in     *)
(* insertion order; none when there is no table.                            *)
facts_for_predicate(db, predicate) ==
    IF predicate \in DOMAIN db THEN db[predicate].rows ELSE <<>>

(* Database::contains: some row of the predicate's table equals the values. *)
contains(db, predicate, values) ==
    predicate \in DOMAIN db /\ Contains(db[predicate].rows, values)

(* Database::all_facts / weighted_facts: every row of every table, each     *)
(* table's rows in insertion order.                                         *)
RECURSIVE TablesFacts(_, _)
TablesFacts(db, preds) ==
    IF preds = {} THEN <<>>
    ELSE LET p == CHOOSE q \in preds : \A r \in preds : q <= r
             t == db[p]
         IN [i \in 1..Len(t.rows) |->
                [predicate |-> p, values |-> t.rows[i], weight |-> t.row_weights[i]]]
            \o TablesFacts(db, preds \ {p})

all_facts(db) == TablesFacts(db, DOMAIN db)

(* The set of distinct facts of a database.                                 *)
FactSet(db) ==
    UNION {{<<p, db[p].rows[i]>> : i \in 1..Len(db[p].rows)} : p \in DOMAIN db}

----------------------------------------------------------------------------
(* Nodes of a diagram.                                                      *)
(*   MatchTerm  = [constraint |-> [tag, arg], target |-> None or register]  *)
(*   OutputTerm = [tag |-> "Constant" or "Register", arg |-> value or reg]  *)
(*   Node       = [kind |-> "Match" or "Output", predicate, terms]          *)

Free == [tag |-> "Free", arg |-> 0]
Constant(v) == [tag |-> "Constant", arg |-> v]
Register(r) == [tag |-> "Register", arg |-> r]

MatchTerm(constraint, target) == [constraint |-> constraint, target |-> target]

MatchNode(predicate, terms) ==
    [kind |-> "Match", predicate |-> predicate, terms |-> terms]

OutputNode(predicate, terms) ==
    [kind |-> "Output", predicate |-> predicate, terms |-> terms]

----------------------------------------------------------------------------
(* NodeOutputState: None, Match{matches, refutes} or Output{db}.            *)

OutputNone ==
    [kind |-> "None", matches |-> RegisterSetNew, refutes |-> RegisterSetNew,
     db |-> DatabaseNew]

OutputMatch(matches, refutes) ==
    [kind |-> "Match", matches |-> matches, refutes |-> refutes, db |-> DatabaseNew]

OutputDb(db) ==
    [kind |-> "Output", matches |-> RegisterSetNew, refutes |-> RegisterSetNew,
     db |-> db]

NodeStateNew == [input |-> RegisterSetNew, output |-> OutputNone]

----------------------------------------------------------------------------
(* propagate_match_node_into_output, for one fact.  `terms.iter().zip(      *)
(* fact.values)` pairs the first Min(#terms, #values) positions.            *)

ZipLen(terms, values) == Min2(Len(terms), Len(values))

(* Indexing a RegisterFile past its length aborts (ops::Index on a Vec).    *)
MatchFactAborts(terms, register_file, values) ==
    \E i \in 1..ZipLen(terms, values) :
        \/ /\ terms[i].constraint.tag = "Register"
           /\ terms[i].constraint.arg >= Len(register_file)
        \/ /\ terms[i].target # None
           /\ terms[i].target >= Len(register_file)

(* A variant of the constraint test in which a constant never refutes.      *)
TermRefutesLax(term, register_file, value) ==
    CASE term.constraint.tag = "Free" -> FALSE
      [] term.constraint.tag = "Constant" -> FALSE
      [] term.constraint.tag = "Register" ->
            register_file[term.constraint.arg + 1] # value

TermRefutes(term, register_file, value) ==
    CASE term.constraint.tag = "Free" -> FALSE
      [] term.constraint.tag = "Constant" -> term.constraint.arg # value
      [] term.constraint.tag = "Register" ->
            register_file[term.constraint.arg + 1] # value

(* A variant of the refutation test in which a term constrained by an       *)
(* unbound register does not refute.                                        *)
MatchFactRefutedBound(terms, register_file, values) ==
    \E i \in 1..ZipLen(terms, values) :
        /\ TermRefutes(terms[i], register_file, values[i])
        /\ ~(/\ terms[i].constraint.tag = "Register"
              /\ register_file[terms[i].constraint.arg + 1] = None)

MatchFactRefuted(terms, register_file, values) ==
    \E i \in 1..ZipLen(terms, values) : TermRefutes(terms[i], register_file, values[i])

(* `result_registers[target] = Some(value)` for every term with a target,   *)
(* in term order: the last term that targets a register decides it.         *)
MatchFactResult(terms, register_file, values) ==
    [r \in 1..Len(register_file) |->
        LET writers == {i \in 1..ZipLen(terms, values) : terms[i].target = r - 1}
        IN IF writers = {} THEN register_file[r] ELSE values[SetMax(writers)]]

(* The loop over the facts of the predicate, from row `i` on: every fact    *)
(* pushes its result into refutes or matches with depth input_depth + 1.    *)
RECURSIVE MatchFactsFrom(_, _, _, _, _, _, _)
MatchFactsFrom(terms, rows, i, register_file, weight, input_depth, acc) ==
    IF i > Len(rows) THEN acc
    ELSE LET result == MatchFactResult(terms, register_file, rows[i])
             next ==
                 IF MatchFactRefuted(terms, register_file, rows[i])
                 THEN LET p == RegisterSetPush(acc.refutes, result, weight, input_depth + 1)
                      IN [matches |-> acc.matches, refutes |-> p.set,
                          new |-> acc.new \/ p.new]
                 ELSE LET p == RegisterSetPush(acc.matches, result, weight, input_depth + 1)
                      IN [matches |-> p.set, refutes |-> acc.refutes,
                          new |-> acc.new \/ p.new]
         IN Strict(next, MatchFactsFrom(terms, rows, i + 1, register_file, weight,
                                        input_depth, next))

propagate_match_node_into_output(predicate, terms, database, register_file, weight, input_depth, matches, refutes) ==
    MatchFactsFrom(terms, facts_for_predicate(database, predicate), 1,
                   register_file, weight, input_depth,
                   [matches |-> matches, refutes |-> refutes, new |-> FALSE])

MatchNodeAborts(predicate, terms, database, register_file) ==
    LET rows == facts_for_predicate(database, predicate)
    IN \E i \in 1..Len(rows) : MatchFactAborts(terms, register_file, rows[i])

----------------------------------------------------------------------------
(* propagate_output_node_into_output: the values of the fact one register   *)
(* file emits.  A Register term past the file's length adds no value.       *)

(* A variant of the value of an Output term in which a register past the   *)
(* end of the register file yields Nil.                                     *)
OutputTermValuesNil(term, register_file) ==
    IF term.tag = "Constant" THEN <<term.arg>>
    ELSE IF term.arg < Len(register_file) /\ register_file[term.arg + 1] # None
         THEN <<register_file[term.arg + 1]>>
         ELSE <<Nil>>

OutputTermValues(term, register_file) ==
    IF term.tag = "Constant" THEN <<term.arg>>
    ELSE IF term.arg < Len(register_file)
         THEN IF register_file[term.arg + 1] # None
              THEN <<register_file[term.arg + 1]>>
              ELSE <<Nil>>
         ELSE <<>>

RECURSIVE OutputValues(_, _)
OutputValues(terms, register_file) ==
    IF terms = <<>> THEN <<>>
    ELSE OutputTermValues(terms[1], register_file)
         \o OutputValues(Tail(terms), register_file)

propagate_output_node_into_output(predicate, terms, register_file, weight, db) ==
    insert_fact_with_weight(db, predicate, OutputValues(terms, register_file), weight)

----------------------------------------------------------------------------
(* propagate: the output one node derives from the register set `registers` *)
(* (iterated in hash order `order`).  A Match node skips every entry whose  *)
(* depth is not below max_depth.                                            *)

(* A variant of the loop over a Match node's entries without the depth     *)
(* test.                                                                    *)
RECURSIVE PropagateMatchEntriesUnbounded(_, _, _, _, _)
PropagateMatchEntriesUnbounded(node, database, entries, max_depth, acc) ==
    IF entries = <<>> THEN acc
    ELSE LET e == entries[1]
             next == propagate_match_node_into_output(
                         node.predicate, node.terms, database, e.rf, e.weight,
                         e.depth, acc.matches, acc.refutes)
         IN Strict(next, PropagateMatchEntriesUnbounded(node, database, Tail(entries),
                                                        max_depth, next))

RECURSIVE PropagateMatchEntries(_, _, _, _, _)
PropagateMatchEntries(node, database, entries, max_depth, acc) ==
    IF entries = <<>> THEN acc
    ELSE LET e == entries[1]
             next ==
                 IF e.depth < max_depth
                 THEN propagate_match_node_into_output(
                          node.predicate, node.terms, database, e.rf, e.weight,
                          e.depth, acc.matches, acc.refutes)
                 ELSE acc
         IN Strict(next, PropagateMatchEntries(node, database, Tail(entries), max_depth,
                                               next))

(* A variant of the loop over an Output node's entries that stops after    *)
(* the first entry.                                                         *)
PropagateFirstOutputEntry(node, entries, db) ==
    IF entries = <<>> THEN db
    ELSE propagate_output_node_into_output(
             node.predicate, node.terms, entries[1].rf, entries[1].weight, db)

RECURSIVE PropagateOutputEntries(_, _, _)
PropagateOutputEntries(node, entries, db) ==
    IF entries = <<>> THEN db
    ELSE LET next == propagate_output_node_into_output(
                         node.predicate, node.terms, entries[1].rf, entries[1].weight, db)
         IN Strict(next, PropagateOutputEntries(node, Tail(entries), next))

propagate(node, database, registers, max_depth, order) ==
    IF node.kind = "Match"
    THEN LET r == PropagateMatchEntries(node, database,
                      RegisterSetIter(registers, order), max_depth,
                      [matches |-> RegisterSetNew, refutes |-> RegisterSetNew,
                       new |-> FALSE])
         IN OutputMatch(r.matches, r.refutes)
    ELSE OutputDb(PropagateOutputEntries(node, RegisterSetIter(registers, order),
                                         DatabaseNew))

(* propagate aborts when a processed entry indexes a register file past its *)
(* length.                                                                  *)
PropagateAborts(node, database, registers, max_depth) ==
    /\ node.kind = "Match"
    /\ \E rf \in DOMAIN registers :
          /\ registers[rf].depth < max_depth
          /\ MatchNodeAborts(node.predicate, node.terms, database, rf)

----------------------------------------------------------------------------
(* NodeState::merge_output: the node state after merging `output`, and      *)
(* whether a new state was added.                                           *)

RECURSIVE InsertFacts(_, _)
InsertFacts(db, facts) ==
    IF facts = <<>> THEN db
    ELSE LET next == insert_fact_with_weight(db, facts[1].predicate, facts[1].values,
                                             facts[1].weight)
         IN Strict(next, InsertFacts(next, Tail(facts)))

(* Some insert of `facts` into `db`, in order, fails Table::push's assert.  *)
RECURSIVE InsertFactsAborts(_, _)
InsertFactsAborts(db, facts) ==
    IF facts = <<>> THEN FALSE
    ELSE LET next == insert_fact_with_weight(db, facts[1].predicate, facts[1].values,
                                             facts[1].weight)
         IN \/ InsertAborts(db, facts[1].predicate, facts[1].values)
            \/ Strict(next, InsertFactsAborts(next, Tail(facts)))

(* `panic!("Node should not have changed type")`, or an arity assert.       *)
MergeOutputAborts(state, output) ==
    \/ state.output.kind # "None" /\ state.output.kind # output.kind
    \/ /\ state.output.kind = "Output"
       /\ output.kind = "Output"
       /\ InsertFactsAborts(state.output.db, all_facts(output.db))

merge_output(state, output, order) ==
    CASE state.output.kind = "None" ->
            [state |-> [state EXCEPT !.output = output], found_new_state |-> TRUE]
      [] state.output.kind = "Output" ->
            [state |-> [state EXCEPT !.output.db = InsertFacts(@, all_facts(output.db))],
             found_new_state |-> FALSE]
      [] state.output.kind = "Match" ->
            LET m == PushAll(state.output.matches, RegisterSetIter(output.matches, order))
                r == PushAll(state.output.refutes, RegisterSetIter(output.refutes, order))
            IN [state |-> [state EXCEPT !.output.matches = m.set,
                                        !.output.refutes = r.set],
                found_new_state |-> m.new \/ r.new]

----------------------------------------------------------------------------
(* GraphDiagram: num_registers, roots and, per node, the node with its      *)
(* out_edges and in_edges (each an on_match and an on_refute group).        *)

EdgesNew == [on_match |-> <<>>, on_refute |-> <<>>]

GraphNodeNew(node) == [node |-> node, out_edges |-> EdgesNew, in_edges |-> EdgesNew]

GraphDiagramNew(num_registers) ==
    [num_registers |-> num_registers, roots |-> <<>>, graph |-> <<>>]

DiagramLen(d) == Len(d.graph)

get_node(d, index) == d.graph[index + 1].node

match_target_group(d, node) == d.graph[node + 1].out_edges.on_match
refute_target_group(d, node) == d.graph[node + 1].out_edges.on_refute
match_source_group(d, node) == d.graph[node + 1].in_edges.on_match
refute_source_group(d, node) == d.graph[node + 1].in_edges.on_refute

(* MultiDiagram::insert_node: the diagram with the node appended; its index *)
(* is the former length.                                                    *)
insert_node(d, node) == [d EXCEPT !.graph = Append(@, GraphNodeNew(node))]

(* Vec::swap_remove of the first occurrence of `node`.                      *)
remove_from_group(group, node) ==
    LET position == CHOOSE i \in 1..Len(group) :
                        group[i] = node /\ \A j \in 1..(i - 1) : group[j] # node
        moved == [group EXCEPT ![position] = Last(group)]
    IN Front(moved)

(* `.expect("Should only remove a node if it is present in a group")`       *)
RemoveFromGroupAborts(group, node) == ~Contains(group, node)

(* `panic!("Should only insert a node if it is not present in a group")`    *)
InsertIntoGroupAborts(group, node) == Contains(group, node)

insert_into_group(group, node) == Append(group, node)

(* Diagram::get_root is roots[0]: it aborts on a diagram without root.      *)
GetRootAborts(d) == d.roots = <<>>

get_root(d) == d.roots[1]

set_root(d, root) == [d EXCEPT !.roots = <<root>>]

get_on_match(d, src) ==
    IF match_target_group(d, src) = <<>> THEN None ELSE match_target_group(d, src)[1]

get_on_refute(d, src) ==
    IF refute_target_group(d, src) = <<>> THEN None ELSE refute_target_group(d, src)[1]

(* The diagram after the arm `arm` ("on_match" or "on_refute") of src lost  *)
(* its first target's back reference, as set_on_* and clear_on_* begin.     *)
DropBackReference(d, arm, src) ==
    LET old == IF arm = "on_match" THEN get_on_match(d, src) ELSE get_on_refute(d, src)
    IN IF old = None THEN d
       ELSE [d EXCEPT !.graph[old + 1].in_edges[arm] = remove_from_group(@, src)]

DropBackReferenceAborts(d, arm, src) ==
    LET old == IF arm = "on_match" THEN get_on_match(d, src) ELSE get_on_refute(d, src)
    IN old # None /\ RemoveFromGroupAborts(d.graph[old + 1].in_edges[arm], src)

(* A set_on_* that sets both arms of src to the target.                     *)
SetArmBoth(d, arm, src, target) ==
    LET d1 == DropBackReference(d, arm, src)
        d2 == [d1 EXCEPT !.graph[src + 1].out_edges =
                            [on_match |-> <<target>>, on_refute |-> <<target>>]]
    IN [d2 EXCEPT !.graph[target + 1].in_edges[arm] = insert_into_group(@, src)]

SetArm(d, arm, src, target) ==
    LET d1 == DropBackReference(d, arm, src)
        d2 == [d1 EXCEPT !.graph[src + 1].out_edges[arm] = <<target>>]
    IN [d2 EXCEPT !.graph[target + 1].in_edges[arm] = insert_into_group(@, src)]

SetArmAborts(d, arm, src, target) ==
    \/ src >= DiagramLen(d)
    \/ target >= DiagramLen(d)
    \/ DropBackReferenceAborts(d, arm, src)
    \/ InsertIntoGroupAborts(DropBackReference(d, arm, src).graph[target + 1].in_edges[arm], src)

ClearArm(d, arm, src) ==
    LET d1 == DropBackReference(d, arm, src)
    IN [d1 EXCEPT !.graph[src + 1].out_edges[arm] = <<>>]

ClearArmAborts(d, arm, src) ==
    src >= DiagramLen(d) \/ DropBackReferenceAborts(d, arm, src)

set_on_match(d, src, target) == SetArm(d, "on_match", src, target)
set_on_refute(d, src, target) == SetArm(d, "on_refute", src, target)
clear_on_match(d, src) == ClearArm(d, "on_match", src)
clear_on_refute(d, src) == ClearArm(d, "on_refute", src)

----------------------------------------------------------------------------
(* Evaluation: states (one NodeState per node), max_depth, total_db.        *)

EvaluationNew ==
    [states |-> <<>>, max_depth |-> DEFAULT_MAX_DEPTH, total_db |-> DatabaseNew]

(* Evaluation::grow: blank states are appended up to num_nodes.             *)
grow(states, num_nodes) ==
    IF Len(states) >= num_nodes THEN states
    ELSE states \o [i \in 1..(num_nodes - Len(states)) |-> NodeStateNew]

(* A worklist entry of run_pending: (node, regs).                           *)
Entry(node, regs) == [node |-> node, regs |-> regs]

RootRegisterSet(num_registers) ==
    RegisterSetPush(RegisterSetNew, RegisterFileNew(num_registers), 1, 0).set

(* The entries run_pending pushes for the targets of `node` after a merge   *)
(* that found a new state: the match targets with the derived matches, then *)
(* the refute targets with the derived refutes.                             *)
(* A variant of the successors that leaves the refute targets out.         *)
SuccessorsMatchOnly(d, node, output) ==
    LET mt == match_target_group(d, node)
    IN [i \in 1..Len(mt) |-> Entry(mt[i], output.matches)]

Successors(d, node, output) ==
    LET mt == match_target_group(d, node)
        rt == refute_target_group(d, node)
    IN [i \in 1..Len(mt) |-> Entry(mt[i], output.matches)]
       \o [i \in 1..Len(rt) |-> Entry(rt[i], output.refutes)]

(* A variant of the iteration that reads the entry and leaves it on the     *)
(* worklist.                                                                *)
RunPendingIterationPeek(d, database, states, max_depth, pending, at, order) ==
    LET node == pending[at].node
        regs == pending[at].regs
        input == PushAll(states[node + 1].input, RegisterSetIter(regs, order)).set
        with_input == [states[node + 1] EXCEPT !.input = input]
        output == propagate(get_node(d, node), database, regs, max_depth, order)
        merged == merge_output(with_input, output, order)
    IN [states |-> [states EXCEPT ![node + 1] = merged.state],
        pending |-> IF merged.found_new_state /\ output.kind = "Match"
                    THEN pending \o Successors(d, node, output)
                    ELSE pending]

(* One iteration of the loop of run_pending, taking the entry at position   *)
(* `at` of the worklist (`pending.pop()` takes the last one).               *)
RunPendingIteration(d, database, states, max_depth, pending, at, order) ==
    LET node == pending[at].node
        regs == pending[at].regs
        rest == SubSeq(pending, 1, at - 1) \o SubSeq(pending, at + 1, Len(pending))
        input == PushAll(states[node + 1].input, RegisterSetIter(regs, order)).set
        with_input == [states[node + 1] EXCEPT !.input = input]
        output == propagate(get_node(d, node), database, regs, max_depth, order)
        merged == merge_output(with_input, output, order)
    IN [states |-> [states EXCEPT ![node + 1] = merged.state],
        pending |-> IF merged.found_new_state /\ output.kind = "Match"
                    THEN rest \o Successors(d, node, output)
                    ELSE rest]

RunPendingIterationAborts(d, database, states, max_depth, pending, at) ==
    LET node == pending[at].node
        regs == pending[at].regs
    IN \/ node >= Len(states)
       \/ PropagateAborts(get_node(d, node), database, regs, max_depth)
       \/ MergeOutputAborts(states[node + 1],
              propagate(get_node(d, node), database, regs, max_depth, "asc"))

(* Evaluation::build_total_db: every fact of every Output node's database   *)
(* is inserted into total_db (with insert_fact), in node order.             *)
RECURSIVE OutputFactsFrom(_, _)
OutputFactsFrom(states, i) ==
    IF i > Len(states) THEN <<>>
    ELSE (IF states[i].output.kind = "Output" THEN all_facts(states[i].output.db)
          ELSE <<>>)
         \o OutputFactsFrom(states, i + 1)

UnitWeights(facts) == [i \in 1..Len(facts) |-> [facts[i] EXCEPT !.weight = 1]]

build_total_db(eval) ==
    [eval EXCEPT !.total_db = InsertFacts(@, UnitWeights(OutputFactsFrom(eval.states, 1)))]

BuildTotalDbAborts(eval) ==
    InsertFactsAborts(eval.total_db, OutputFactsFrom(eval.states, 1))

(* Evaluation::run_multi up to the call of run_pending: the roots' inputs   *)
(* hold the empty register file and the worklist holds one entry per root.  *)
ValidRoots(d) == SelectSeq(d.roots, LAMBDA r : r < DiagramLen(d))

RECURSIVE SeedRoots(_, _, _)
SeedRoots(states, roots, num_registers) ==
    IF roots = <<>> THEN states
    ELSE SeedRoots(
             [states EXCEPT ![roots[1] + 1].input =
                 RegisterSetPush(@, RegisterFileNew(num_registers), 1, 0).set],
             Tail(roots), num_registers)

RunMultiStart(d) ==
    LET roots == ValidRoots(d)
    IN [eval |-> [EvaluationNew EXCEPT !.states =
                     SeedRoots(grow(<<>>, DiagramLen(d)), roots, d.num_registers)],
        pending |-> [i \in 1..Len(roots) |->
                        Entry(roots[i], RootRegisterSet(d.num_registers))]]

----------------------------------------------------------------------------
(* Evaluation::rerun_from up to the call of run_pending.                    *)

(* The invalidation loop: the stack to_invalidate is popped until empty;    *)
(* each node not yet invalidated gets a blank state and pushes its match    *)
(* and refute targets.  A target in the start set ends the loop with a full *)
(* run (`full`).                                                            *)
(* An invalidation loop that also resets the sources of the nodes it        *)
(* visits.                                                                  *)
RECURSIVE InvalidateSources(_, _, _, _, _)
InvalidateSources(d, start_set, to_invalidate, invalidated, states) ==
    IF to_invalidate = <<>>
    THEN [full |-> FALSE, states |-> states, invalidated |-> invalidated]
    ELSE LET node == Last(to_invalidate)
             rest == Front(to_invalidate)
             targets == match_target_group(d, node) \o refute_target_group(d, node)
             sources == SeqToSet(match_source_group(d, node))
                           \cup SeqToSet(refute_source_group(d, node))
         IN IF node \in invalidated
            THEN InvalidateSources(d, start_set, rest, invalidated, states)
            ELSE IF \E i \in 1..Len(targets) : targets[i] \in start_set
                 THEN [full |-> TRUE, states |-> states, invalidated |-> invalidated]
                 ELSE InvalidateSources(d, start_set, rest \o targets,
                                        invalidated \cup {node},
                                        [n \in 1..Len(states) |->
                                            IF n = node + 1 \/ (n - 1) \in sources
                                            THEN NodeStateNew ELSE states[n]])

RECURSIVE Invalidate(_, _, _, _, _)
Invalidate(d, start_set, to_invalidate, invalidated, states) ==
    IF to_invalidate = <<>>
    THEN [full |-> FALSE, states |-> states, invalidated |-> invalidated]
    ELSE LET node == Last(to_invalidate)
             rest == Front(to_invalidate)
             targets == match_target_group(d, node) \o refute_target_group(d, node)
         IN IF node \in invalidated
            THEN Invalidate(d, start_set, rest, invalidated, states)
            ELSE IF \E i \in 1..Len(targets) : targets[i] \in start_set
                 THEN [full |-> TRUE, states |-> states, invalidated |-> invalidated]
                 ELSE Invalidate(d, start_set, rest \o targets,
                                 invalidated \cup {node},
                                 [states EXCEPT ![node + 1] = NodeStateNew])

(* The register sets the sources of `node` hold for it in the Evaluation    *)
(* rerun_from is called on (`self`): the matches of its match sources, then *)
(* the refutes of its refute sources.                                       *)
RECURSIVE SourceEntries(_, _, _, _)
SourceEntries(self, sources, side, order) ==
    IF sources = <<>> THEN <<>>
    ELSE (IF sources[1] < Len(self.states)
             /\ self.states[sources[1] + 1].output.kind = "Match"
          THEN RegisterSetIter(self.states[sources[1] + 1].output[side], order)
          ELSE <<>>)
         \o SourceEntries(self, Tail(sources), side, order)

RebuiltInput(self, d, node, input, order) ==
    LET from_matches ==
            PushAll(input, SourceEntries(self, match_source_group(d, node),
                                         "matches", order)).set
        from_refutes ==
            PushAll(from_matches, SourceEntries(self, refute_source_group(d, node),
                                                "refutes", order)).set
    IN IF Contains(d.roots, node)
       THEN RegisterSetPush(from_refutes, RegisterFileNew(d.num_registers), 1, 0).set
       ELSE from_refutes

(* The loop over `start`: each start node's input is rebuilt and pushed on  *)
(* the worklist.                                                            *)
RECURSIVE RebuildStarts(_, _, _, _, _, _)
RebuildStarts(self, d, start, states, pending, order) ==
    IF start = <<>> THEN [states |-> states, pending |-> pending]
    ELSE LET node == start[1]
             input == RebuiltInput(self, d, node, states[node + 1].input, order)
         IN RebuildStarts(self, d, Tail(start),
                          [states EXCEPT ![node + 1].input = input],
                          Append(pending, Entry(node, input)), order)

(* A rerun_from that goes on with the states invalidated so far where the   *)
(* code restarts from the roots.                                            *)
RerunFromStartNoFallback(self, d, start, order) ==
    LET grown == grow(self.states, DiagramLen(d))
        inv == Invalidate(d, SeqToSet(start), start, {}, grown)
        rebuilt == RebuildStarts(self, d, start, inv.states, <<>>, order)
    IN [eval |-> [states |-> rebuilt.states, max_depth |-> self.max_depth,
                  total_db |-> DatabaseNew],
        pending |-> rebuilt.pending]

RerunFromStart(self, d, start, order) ==
    LET grown == grow(self.states, DiagramLen(d))
        inv == Invalidate(d, SeqToSet(start), start, {}, grown)
        rebuilt == RebuildStarts(self, d, start, inv.states, <<>>, order)
    IN IF inv.full THEN RunMultiStart(d)
       ELSE [eval |-> [states |-> rebuilt.states, max_depth |-> self.max_depth,
                       total_db |-> DatabaseNew],
             pending |-> rebuilt.pending]

RerunFromAborts(d, start) == \E i \in 1..Len(start) : start[i] >= DiagramLen(d)

(* rerun_from returns `Evaluation::run_multi(diagram, input, ..)`.          *)
RerunFallsBack(d, start) ==
    Invalidate(d, SeqToSet(start), start, {}, grow(<<>>, DiagramLen(d))).full

----------------------------------------------------------------------------
(* The evaluations as functions: run_pending to the end (popping the last   *)
(* entry, hash order "asc"), then build_total_db.  `aborted` tells that the *)
(* run hit an abort.                                                        *)

RECURSIVE RunPendingToEnd(_, _, _, _, _)
RunPendingToEnd(d, database, states, max_depth, pending) ==
    IF pending = <<>> THEN [states |-> states, aborted |-> FALSE]
    ELSE IF RunPendingIterationAborts(d, database, states, max_depth, pending, Len(pending))
         THEN [states |-> states, aborted |-> TRUE]
         ELSE LET it == RunPendingIteration(d, database, states, max_depth, pending,
                                            Len(pending), "asc")
              IN Strict(it, RunPendingToEnd(d, database, it.states, max_depth,
                                            it.pending))

FinishEvaluation(d, database, start) ==
    LET run == RunPendingToEnd(d, database, start.eval.states, start.eval.max_depth,
                               start.pending)
        done == [start.eval EXCEPT !.states = run.states]
    IN IF run.aborted \/ BuildTotalDbAborts(done)
       THEN [eval |-> done, aborted |-> TRUE]
       ELSE [eval |-> build_total_db(done), aborted |-> FALSE]

run_multi(d, database) == FinishEvaluation(d, database, RunMultiStart(d))

rerun_from(self, d, database, start) ==
    FinishEvaluation(d, database, RerunFromStart(self, d, start, "asc"))

(* GraphDiagram::evaluate                                                   *)
evaluate(d, database) == run_multi(d, database).eval.total_db

----------------------------------------------------------------------------
(* Mutations (src/src/mutation.rs) are records with a `type` field; an Edge *)
(* is [tag |-> "Root" | "Match" | "Refute", src].                           *)

EdgeRoot == [tag |-> "Root", src |-> 0]
EdgeMatch(src) == [tag |-> "Match", src |-> src]
EdgeRefute(src) == [tag |-> "Refute", src |-> src]

(* Option<MutationResult>: `some` is FALSE for None.                        *)
MutationNone ==
    [some |-> FALSE, phenotype_could_have_changed |-> FALSE, node_to_restart |-> None]

MutationResult(changed, restart) ==
    [some |-> TRUE, phenotype_could_have_changed |-> changed, node_to_restart |-> restart]

changed_node(node) == MutationResult(TRUE, node)

(* What apply_mutation leaves: the diagram, the returned value, and whether *)
(* the call aborted (an assert, an expect or an index out of bounds).       *)
Applied(d, result) == [diagram |-> d, result |-> result, aborted |-> FALSE]
Aborted(d) == [diagram |-> d, result |-> MutationNone, aborted |-> TRUE]

(* A term mutation that also resets the target of the addressed term.      *)
SetMatchTermReset(d, node, term, field, value) ==
    IF node >= DiagramLen(d) THEN Applied(d, MutationNone)
    ELSE IF get_node(d, node).kind = "Match" /\ term < Len(get_node(d, node).terms)
         THEN Applied([d EXCEPT !.graph[node + 1].node.terms[term + 1] =
                                   [[@ EXCEPT !.target = None] EXCEPT ![field] = value]],
                      changed_node(node))
         ELSE Applied(d, MutationNone)

(* The four mutations of one term of a Match node.                          *)
SetMatchTerm(d, node, term, field, value) ==
    IF node >= DiagramLen(d) THEN Applied(d, MutationNone)
    ELSE IF get_node(d, node).kind = "Match" /\ term < Len(get_node(d, node).terms)
         THEN Applied([d EXCEPT !.graph[node + 1].node.terms[term + 1][field] = value],
                      changed_node(node))
         ELSE Applied(d, MutationNone)

(* SetOutputRegister and SetOutputConstant: `terms[term] = ...` indexes the *)
(* Vec without a check.                                                     *)
SetOutputTerm(d, node, term, value) ==
    IF node >= DiagramLen(d) THEN Applied(d, MutationNone)
    ELSE IF get_node(d, node).kind = "Output"
         THEN IF term >= Len(get_node(d, node).terms) THEN Aborted(d)
              ELSE Applied([d EXCEPT !.graph[node + 1].node.terms[term + 1] = value],
                           MutationResult(TRUE, node))
         ELSE Applied(d, MutationNone)

SetPredicate(d, node, predicate) ==
    IF node >= DiagramLen(d) THEN Applied(d, MutationNone)
    ELSE Applied([d EXCEPT !.graph[node + 1].node.predicate = predicate],
                 MutationResult(TRUE, node))

(* A sequence of arm updates, each aborting the whole call when it aborts.  *)
(* An update is [op |-> "set" | "clear", arm, src, target].                 *)
RECURSIVE ApplyArmUpdates(_, _)
ApplyArmUpdates(d, updates) ==
    IF updates = <<>> THEN [diagram |-> d, aborted |-> FALSE]
    ELSE LET u == updates[1]
         IN IF u.op = "set"
            THEN IF SetArmAborts(d, u.arm, u.src, u.target)
                 THEN [diagram |-> d, aborted |-> TRUE]
                 ELSE ApplyArmUpdates(SetArm(d, u.arm, u.src, u.target), Tail(updates))
            ELSE IF ClearArmAborts(d, u.arm, u.src)
                 THEN [diagram |-> d, aborted |-> TRUE]
                 ELSE ApplyArmUpdates(ClearArm(d, u.arm, u.src), Tail(updates))

SetUpdate(arm, src, target) == [op |-> "set", arm |-> arm, src |-> src, target |-> target]
ClearUpdate(arm, src) == [op |-> "clear", arm |-> arm, src |-> src, target |-> 0]

(* An inserted node whose terms write register 0.                           *)
PassthroughNodeWriting(predicate, num_terms) ==
    MatchNode(predicate, [i \in 1..num_terms |-> MatchTerm(Free, 0)])

PassthroughNode(predicate, num_terms) ==
    MatchNode(predicate, [i \in 1..num_terms |-> MatchTerm(Free, None)])

InsertPassthrough(d, predicate, num_terms, edge) ==
    IF DiagramLen(d) > 2 THEN Applied(d, MutationNone)
    ELSE LET node_index == DiagramLen(d)
             d1 == insert_node(d, PassthroughNode(predicate, num_terms))
             arm == IF edge.tag = "Match" THEN "on_match" ELSE "on_refute"
         IN IF edge.tag = "Root"
            THEN IF GetRootAborts(d1) THEN Aborted(d1)
                 ELSE LET target == get_root(d1)
                          r == ApplyArmUpdates(d1,
                                   <<SetUpdate("on_match", node_index, target),
                                     SetUpdate("on_refute", node_index, target)>>)
                      IN IF r.aborted THEN Aborted(r.diagram)
                         ELSE Applied(set_root(r.diagram, node_index),
                                      MutationResult(FALSE, None))
            ELSE IF edge.src >= DiagramLen(d1) THEN Aborted(d1)
                 ELSE LET target == IF arm = "on_match" THEN get_on_match(d1, edge.src)
                                    ELSE get_on_refute(d1, edge.src)
                          r == ApplyArmUpdates(d1,
                                   (IF target # None
                                    THEN <<SetUpdate("on_match", node_index, target),
                                           SetUpdate("on_refute", node_index, target)>>
                                    ELSE <<>>)
                                   \o <<SetUpdate(arm, edge.src, node_index)>>)
                      IN IF r.aborted THEN Aborted(r.diagram)
                         ELSE Applied(r.diagram, MutationResult(FALSE, None))

(* A redirection that always clears the arm of the sources.                 *)
RedirectSourcesClear(arm, sources, target) ==
    [i \in 1..Len(sources) |-> [op |-> "clear", arm |-> arm, src |-> sources[i], target |-> None]]

(* RemoveNode: the sources of the node (copied before the loop) take over   *)
(* the node's arm, or lose theirs when the node has none.                   *)
RedirectSources(arm, sources, target) ==
    [i \in 1..Len(sources) |->
        IF target # None THEN SetUpdate(arm, sources[i], target)
        ELSE ClearUpdate(arm, sources[i])]

(* A RemoveNode without the test `node == diagram.get_root()`.              *)
RemoveNodeUnguarded(d, node) ==
    IF node >= DiagramLen(d) THEN Applied(d, MutationNone)
    ELSE LET n == get_node(d, node)
             node_could_be_passthrough ==
                 /\ n.kind = "Match"
                 /\ \A i \in 1..Len(n.terms) : n.terms[i].target = None
             maybe_match == get_on_match(d, node)
             maybe_refute == get_on_refute(d, node)
             match_sources == match_source_group(d, node)
             r1 == ApplyArmUpdates(d, RedirectSources("on_match", match_sources,
                                                      maybe_match))
             refute_sources == refute_source_group(r1.diagram, node)
             r2 == ApplyArmUpdates(r1.diagram,
                       RedirectSources("on_refute", refute_sources, maybe_refute))
             had_sources == match_sources # <<>> \/ refute_sources # <<>>
         IN IF r1.aborted THEN Aborted(r1.diagram)
            ELSE IF r2.aborted THEN Aborted(r2.diagram)
            ELSE IF maybe_match = maybe_refute /\ node_could_be_passthrough
                 THEN Applied(r2.diagram, MutationResult(FALSE, None))
                 ELSE Applied(r2.diagram, MutationResult(had_sources, None))

RemoveNode(d, node) ==
    IF node >= DiagramLen(d) THEN Applied(d, MutationNone)
    ELSE IF GetRootAborts(d) THEN Aborted(d)
    ELSE IF node = get_root(d) THEN Applied(d, MutationNone)
    ELSE LET n == get_node(d, node)
             node_could_be_passthrough ==
                 /\ n.kind = "Match"
                 /\ \A i \in 1..Len(n.terms) : n.terms[i].target = None
             maybe_match == get_on_match(d, node)
             maybe_refute == get_on_refute(d, node)
             match_sources == match_source_group(d, node)
             r1 == ApplyArmUpdates(d, RedirectSources("on_match", match_sources,
                                                      maybe_match))
             refute_sources == refute_source_group(r1.diagram, node)
             r2 == ApplyArmUpdates(r1.diagram,
                       RedirectSources("on_refute", refute_sources, maybe_refute))
             had_sources == match_sources # <<>> \/ refute_sources # <<>>
         IN IF r1.aborted THEN Aborted(r1.diagram)
            ELSE IF r2.aborted THEN Aborted(r2.diagram)
            ELSE IF maybe_match = maybe_refute /\ node_could_be_passthrough
                 THEN Applied(r2.diagram, MutationResult(FALSE, None))
                 ELSE Applied(r2.diagram, MutationResult(had_sources, None))

SetEdge(d, edge, target) ==
    IF edge.tag = "Root"
    THEN Applied(set_root(d, target), MutationResult(TRUE, None))
    ELSE IF edge.src >= DiagramLen(d) \/ target >= DiagramLen(d)
         THEN Applied(d, MutationNone)
         ELSE LET arm == IF edge.tag = "Match" THEN "on_match" ELSE "on_refute"
              IN IF SetArmAborts(d, arm, edge.src, target) THEN Aborted(d)
                 ELSE Applied(SetArm(d, arm, edge.src, target),
                              MutationResult(TRUE, edge.src))

apply_mutation(d, m) ==
    CASE m.type = "SetConstraintRegister" ->
            SetMatchTerm(d, m.node, m.term, "constraint", Register(m.register))
      [] m.type = "SetConstraintConstant" ->
            SetMatchTerm(d, m.node, m.term, "constraint", Constant(m.value))
      [] m.type = "SetConstraintFree" ->
            SetMatchTerm(d, m.node, m.term, "constraint", Free)
      [] m.type = "SetTarget" ->
            SetMatchTerm(d, m.node, m.term, "target", m.register)
      [] m.type = "InsertPassthrough" ->
            InsertPassthrough(d, m.predicate, m.num_terms, m.edge)
      [] m.type = "RemoveNode" -> RemoveNode(d, m.node)
      [] m.type = "SetEdge" -> SetEdge(d, m.edge, m.target)
      [] m.type = "SetOutputRegister" ->
            SetOutputTerm(d, m.node, m.term, Register(m.register))
      [] m.type = "SetOutputConstant" ->
            SetOutputTerm(d, m.node, m.term, Constant(m.value))
      [] m.type = "SetPredicate" -> SetPredicate(d, m.node, m.predicate)

----------------------------------------------------------------------------
(* StepProblem (src/src/step_problem.rs).                                   *)

(* db_cost: one per row of `actual` that `expected` lacks, two per row of   *)
(* `expected` that `actual` lacks.                                          *)
db_cost(expected, actual) ==
    LET a == all_facts(actual)
        e == all_facts(expected)
    IN Cardinality({i \in 1..Len(a) : ~contains(expected, a[i].predicate, a[i].values)})
       + 2 * Cardinality({i \in 1..Len(e) :
                             ~contains(actual, e[i].predicate, e[i].values)})

(* DiagramIndividual::blank: num_nodes Output nodes of predicate 0 with     *)
(* num_0_terms terms Constant(Symbol(0)), no edge, root 0.                  *)
RECURSIVE InsertNodes(_, _, _)
InsertNodes(d, node, count) ==
    IF count = 0 THEN d ELSE InsertNodes(insert_node(d, node), node, count - 1)

BlankDiagram(num_registers, num_nodes, num_0_terms) ==
    set_root(InsertNodes(GraphDiagramNew(num_registers),
                         OutputNode(0, [i \in 1..num_0_terms |-> Constant(0)]),
                         num_nodes),
             0)

(* database_literal: the facts inserted in order.                           *)
Fact(predicate, values) == [predicate |-> predicate, values |-> values, weight |-> 1]

database_literal(facts) == InsertFacts(DatabaseNew, facts)

Sample(input, expected) == [input |-> input, expected |-> expected]

----------------------------------------------------------------------------
(* Bounds of the model and the inputs the checks draw from.                 *)

NumRegisters == 2
MaxMutations == 1
MaxNode == 3
MaxTerm == 2

Values == {1, 2}
Predicates == {0, 1}
NodeIds == 0..MaxNode
TermIds == 0..MaxTerm
RegisterIds == 0..(NumRegisters - 1)
Edges == {EdgeRoot} \cup {EdgeMatch(n) : n \in NodeIds} \cup {EdgeRefute(n) : n \in NodeIds}

TermMutations(type) ==
    {[type |-> type, node |-> n, term |-> t] : n \in NodeIds, t \in TermIds}

Mutations ==
    {[type |-> ty, node |-> n, term |-> t, register |-> r] :
        ty \in {"SetConstraintRegister", "SetOutputRegister"},
        n \in NodeIds, t \in TermIds, r \in RegisterIds}
    \cup {[type |-> ty, node |-> n, term |-> t, value |-> v] :
            ty \in {"SetConstraintConstant", "SetOutputConstant"},
            n \in NodeIds, t \in TermIds, v \in Values}
    \cup TermMutations("SetConstraintFree")
    \cup {[type |-> "SetTarget", node |-> n, term |-> t, register |-> r] :
            n \in NodeIds, t \in TermIds, r \in RegisterIds \cup {None}}
    \cup {[type |-> "InsertPassthrough", predicate |-> p, num_terms |-> k, edge |-> e] :
            p \in Predicates, k \in 1..MaxTerm, e \in Edges}
    \cup {[type |-> "RemoveNode", node |-> n] : n \in NodeIds}
    \cup {[type |-> "SetEdge", edge |-> e, target |-> n] : e \in Edges, n \in NodeIds}
    \cup {[type |-> "SetPredicate", node |-> n, predicate |-> p] :
            n \in NodeIds, p \in Predicates}

(* A diagram from its nodes, its root and its arms.                         *)
RECURSIVE WithNodes(_, _)
WithNodes(d, nodes) ==
    IF nodes = <<>> THEN d ELSE WithNodes(insert_node(d, nodes[1]), Tail(nodes))

Diagram(num_registers, nodes, root, arms) ==
    set_root(ApplyArmUpdates(WithNodes(GraphDiagramNew(num_registers), nodes), arms).diagram,
             root)

(* tests::can_evaluate_copying_diagram (src/src/graph_diagram.rs):          *)
(*   root Match @0(_ -> %0, _ -> %1), on match Output @1(%0, %1).           *)
DiagramCopy ==
    Diagram(NumRegisters,
            <<MatchNode(0, <<MatchTerm(Free, 0), MatchTerm(Free, 1)>>),
              OutputNode(1, <<Register(0), Register(1)>>)>>,
            0, <<SetUpdate("on_match", 0, 1)>>)

(* tests::can_evaluate_nested_filtering_diagram:                            *)
(*   root Match @0(:1 -> %0, _ -> %1), on match Match @0(_, _ -> %1),       *)
(*   on match Output @1(%0, %1).                                            *)
DiagramNested ==
    Diagram(NumRegisters,
            <<MatchNode(0, <<MatchTerm(Constant(1), 0), MatchTerm(Free, 1)>>),
              MatchNode(0, <<MatchTerm(Free, None), MatchTerm(Free, 1)>>),
              OutputNode(1, <<Register(0), Register(1)>>)>>,
            0, <<SetUpdate("on_match", 0, 1), SetUpdate("on_match", 1, 2)>>)

(* An Output node with two sources: the root's refute arm and the match arm *)
(* of the node on the root's match arm.                                     *)
DiagramJoin ==
    Diagram(NumRegisters,
            <<MatchNode(0, <<MatchTerm(Constant(1), None), MatchTerm(Free, 0)>>),
              MatchNode(0, <<MatchTerm(Register(0), None), MatchTerm(Free, 1)>>),
              OutputNode(1, <<Register(0), Register(1)>>)>>,
            0, <<SetUpdate("on_match", 0, 1), SetUpdate("on_refute", 0, 2),
                 SetUpdate("on_match", 1, 2)>>)

(* A root Match node with one Output node on its match arm and a second     *)
(* Output node no arm leads to.                                             *)
DiagramSpare ==
    Diagram(NumRegisters,
            <<MatchNode(0, <<MatchTerm(Free, 0), MatchTerm(Free, 1)>>),
              OutputNode(1, <<Register(0), Register(1)>>),
              OutputNode(1, <<Register(1), Register(0)>>)>>,
            0, <<SetUpdate("on_match", 0, 1)>>)

(* A cycle reached by two paths of different length.  The root (node 0)   *)
(* binds %0 and sends it on both arms: by its refute arm to node 2, by its  *)
(* match arm to node 1, a passthrough before node 2.  Node 2 sends its      *)
(* input on to node 3 (match arm) and to the Output node 4 (refute arm);    *)
(* node 3 follows @1 from %0 and leads back to node 2.                      *)
DiagramWalk ==
    Diagram(1,
            <<MatchNode(0, <<MatchTerm(Constant(1), None), MatchTerm(Free, 0)>>),
              MatchNode(0, <<MatchTerm(Free, None), MatchTerm(Free, None)>>),
              MatchNode(0, <<MatchTerm(Constant(1), None), MatchTerm(Free, None)>>),
              MatchNode(1, <<MatchTerm(Register(0), None), MatchTerm(Free, 0)>>),
              OutputNode(1, <<Register(0), Constant(0)>>)>>,
            0, <<SetUpdate("on_match", 0, 1), SetUpdate("on_refute", 0, 2),
                 SetUpdate("on_match", 1, 2), SetUpdate("on_match", 2, 3),
                 SetUpdate("on_refute", 2, 4), SetUpdate("on_match", 3, 2)>>)

DbPairs == database_literal(<<Fact(0, <<1, 2>>), Fact(0, <<2, 3>>), Fact(0, <<1, 4>>)>>)
DbOne == database_literal(<<Fact(0, <<1, 2>>)>>)
DbEmpty == DatabaseNew

(* @0(1, 1), @0(2, 1) and the successor facts @1(k, k + 1) for k = 1 .. n   *)
DbSucc(n) ==
    database_literal(<<Fact(0, <<1, 1>>), Fact(0, <<2, 1>>)>>
                     \o [k \in 1..n |-> Fact(1, <<k, k + 1>>)])

(* The successor facts a walk of DEFAULT_MAX_DEPTH steps can follow.        *)
DbWalk == DbSucc(DEFAULT_MAX_DEPTH \div 2)

ExpectedCopy == database_literal(<<Fact(1, <<1, 2>>)>>)

----------------------------------------------------------------------------
(* The state machine.                                                       *)
(*   diagram, samples, evaluations, fitness: a DiagramIndividual and the    *)
(*       samples of its StepProblem (a sample is an input database and the  *)
(*       expected output database);                                        *)
(*   orders: the iteration orders the hash maps of this process can take;   *)
(*   pc: "idle", "run" (inside run_pending) or "aborted" (a panic);         *)
(*   mode: the call run_pending belongs to, "run_multi" or "rescore";       *)
(*   cur: the sample being evaluated; start: the node rescore restarts at;  *)
(*   eval, pending: the Evaluation being built and the worklist;            *)
(*   acc: the local `fitness` of rescore;                                   *)
(*   nmut: the number of mutations applied;                                 *)
(*   history: what the checks need to know about the past (see History).    *)

VARIABLES diagram, samples, orders, evaluations, fitness, pc, mode, cur, start, eval, pending, acc, nmut, history, call, ret, mutation_state

vars == <<diagram, samples, orders, evaluations, fitness, pc, mode, cur, start, eval, pending, acc, nmut, history, call, ret, mutation_state>>

(* call, ret: a single operation applied on its own (a RegisterSet::push, a *)
(* node applied to one binding, db_cost, apply_mutation): its receiver and  *)
(* arguments, and what it returned.  NoCall in the evolution of an          *)
(* individual.                                                              *)
NoCall == [op |-> "none"]

(* mutation_state: the IndividualMutationState of the individual, the list  *)
(* of the node indices that were deleted and may be reused.                 *)
IndividualMutationStateNew == [deleted_nodes |-> <<>>]

(* history.kind: "individual" for an individual of StepProblem::initialize, *)
(*     "client" for a diagram a client of the library built;                *)
(* history.cache: how the evaluations were last produced ("blank",          *)
(*     "run_multi", "rerun_from"), and cache_diagram: for which diagram;    *)
(* history.lineage: "blank" until a run_multi replaced the evaluations;     *)
(* history.before, mutation, result: the last mutation, the diagram it was  *)
(*     applied to and what apply_mutation returned;                         *)
(* history.fallback: the last rescoring's rerun_from returned run_multi's   *)
(*     Evaluation (a start node is in its own forward closure);             *)
(* history.prior_cache, prior_diagram: cache and cache_diagram when the     *)
(*     last mutation was applied;                                           *)
(* history.prior_fitness: the fitness when the last mutation was applied;   *)
(* history.returned: what the last mutate_and_rescore returned, "pending"   *)
(*     while it has not returned.                                           *)
History(d, kind) ==
    [kind |-> kind, cache |-> "blank", cache_diagram |-> d, lineage |-> "blank",
     before |-> d, mutation |-> [type |-> "None"], result |-> MutationNone,
     fallback |-> FALSE, prior_cache |-> "blank", prior_diagram |-> d,
     prior_fitness |-> FITNESS_UNSCORED, returned |-> "pending"]

(* The individuals of StepProblem::initialize, and diagrams a client built  *)
(* with insert_node and set_on_*, each with the samples it is scored on.    *)
AnyOrder == {IterOrders}
OneOrder == {{o} : o \in IterOrders}

Scenario(kind, d, s, o) == [kind |-> kind, diagram |-> d, samples |-> s, orders |-> o]

Scenarios ==
    {Scenario("individual", BlankDiagram(NumRegisters, n, 2), s, AnyOrder) :
        n \in 1..MaxNode,
        s \in {<<Sample(DbOne, ExpectedCopy)>>,
               <<Sample(DbOne, ExpectedCopy), Sample(DbPairs, DbPairs)>>}}
    \cup {Scenario("client", d, <<Sample(DbPairs, ExpectedCopy)>>, AnyOrder) :
            d \in {DiagramCopy, DiagramNested, DiagramJoin, DiagramSpare}}
    \cup {Scenario("client", DiagramCopy,
                    <<Sample(DbOne, ExpectedCopy), Sample(DbEmpty, DbEmpty)>>, AnyOrder),
          Scenario("client", DiagramWalk, <<Sample(DbWalk, DbEmpty)>>, AnyOrder)}

InitOf(sc) ==
    /\ diagram = sc.diagram
    /\ samples = sc.samples
    /\ orders \in sc.orders
    /\ evaluations = [i \in 1..Len(sc.samples) |-> EvaluationNew]
    /\ fitness = FITNESS_UNSCORED
    /\ pc = "idle"
    /\ mode = "none"
    /\ cur = 0
    /\ start = None
    /\ eval = EvaluationNew
    /\ pending = <<>>
    /\ acc = 0
    /\ nmut = 0
    /\ history = History(sc.diagram, sc.kind)
    /\ call = NoCall
    /\ ret = NoCall
    /\ mutation_state = IndividualMutationStateNew

Init == \E sc \in Scenarios : InitOf(sc)

StartList(node) == IF node = None THEN <<>> ELSE <<node>>

(* A client evaluates the diagram from scratch on every sample's input and  *)
(* keeps the Evaluations: Evaluation::run_multi up to run_pending.          *)
Evaluate ==
    /\ pc = "idle"
    /\ nmut = 0
    /\ history.kind = "client"
    /\ history.cache = "blank"
    /\ samples # <<>>
    /\ pc' = "run"
    /\ mode' = "run_multi"
    /\ cur' = 1
    /\ eval' = RunMultiStart(diagram).eval
    /\ pending' = RunMultiStart(diagram).pending
    /\ UNCHANGED <<diagram, samples, orders, evaluations, fitness, start, acc, nmut, history>>
    /\ UNCHANGED <<call, ret, mutation_state>>

(* One iteration of the loop of run_pending on the worklist entry at      *)
(* position `at`.                                                           *)
RunPendingAt(at) ==
    /\ IF RunPendingIterationAborts(diagram, samples[cur].input, eval.states,
                                    eval.max_depth, pending, at)
       THEN /\ pc' = "aborted"
            /\ UNCHANGED <<eval, pending>>
       ELSE \E order \in orders :
               LET it == RunPendingIteration(diagram, samples[cur].input, eval.states,
                                             eval.max_depth, pending, at, order)
               IN /\ eval' = [eval EXCEPT !.states = it.states]
                  /\ pending' = it.pending
                  /\ pc' = "run"
    /\ UNCHANGED <<diagram, samples, orders, evaluations, fitness, mode, cur, start, acc, nmut, history>>
    /\ UNCHANGED <<call, ret, mutation_state>>

(* One iteration of `while let Some((node, regs)) = pending.pop()`.         *)
RunPendingStep ==
    /\ pc = "run"
    /\ pending # <<>>
    /\ RunPendingAt(Len(pending))

(* The loop of run_pending with a worklist that hands out its entries in    *)
(* any order.                                                               *)
RunPendingAny ==
    /\ pc = "run"
    /\ pending # <<>>
    /\ \E at \in 1..Len(pending) : RunPendingAt(at)

(* The part of run_multi or rerun_from before run_pending, for sample i.    *)
Prelude(m, d, i, restart, order) ==
    IF m = "run_multi" THEN RunMultiStart(d)
    ELSE RerunFromStart(evaluations[i], d, StartList(restart), order)

(* A mutate_and_rescore that rescores whenever apply_mutation returns Some. *)
RescoreDueAlways(result) == result.some

(* `if let Some(MutationResult {..}) = apply_mutation(..)` and              *)
(* `if phenotype_could_have_changed`: the individual is rescored.           *)
RescoreDue(result) == result.some /\ result.phenotype_could_have_changed

(* `return individual.fitness != original_fitness`.                         *)
FitnessDiffers(after, original) == IF after # original THEN "true" ELSE "false"

(* run_pending returned: build_total_db ends the evaluation of the sample;  *)
(* rescore subtracts its cost and goes on with the next sample, or stores   *)
(* the fitness after the last one.                                          *)
FinishSample ==
    /\ pc = "run"
    /\ pending = <<>>
    /\ IF BuildTotalDbAborts(eval)
       THEN /\ pc' = "aborted"
            /\ UNCHANGED <<evaluations, fitness, cur, eval, pending, acc, history>>
       ELSE LET done == build_total_db(eval)
                total == IF mode = "rescore"
                         THEN acc - db_cost(samples[cur].expected, done.total_db)
                         ELSE acc
            IN /\ evaluations' = [evaluations EXCEPT ![cur] = done]
               /\ acc' = total
               /\ IF cur < Len(samples)
                  THEN /\ cur' = cur + 1
                       /\ pc' = "run"
                       /\ \E order \in orders :
                             LET p == Prelude(mode, diagram, cur + 1, start, order)
                             IN eval' = p.eval /\ pending' = p.pending
                       /\ UNCHANGED <<fitness, history>>
                  ELSE /\ pc' = "idle"
                       /\ fitness' = IF mode = "rescore" THEN total ELSE fitness
                       /\ history' =
                             [history EXCEPT
                                 !.cache = IF mode = "rescore" THEN "rerun_from"
                                           ELSE "run_multi",
                                 !.cache_diagram = diagram,
                                 !.lineage = IF mode = "rescore" THEN @ ELSE "run_multi",
                                 !.returned = IF mode = "rescore"
                                              THEN FitnessDiffers(total, history.prior_fitness)
                                              ELSE @]
                       /\ UNCHANGED <<cur, eval, pending>>
    /\ UNCHANGED <<diagram, samples, orders, mode, start, nmut, call, ret, mutation_state>>

(* StepProblem::mutate_and_rescore with the mutation m: apply_mutation,     *)
(* then, when the phenotype could have changed, rescore up to the first     *)
(* call of run_pending.                                                     *)
MutateAndRescoreUpTo(m, max_mutations) ==
    /\ pc = "idle"
    /\ nmut < max_mutations
    /\ LET r == apply_mutation(diagram, m)
       IN /\ diagram' = r.diagram
          /\ nmut' = nmut + 1
          /\ history' = [history EXCEPT !.before = diagram, !.mutation = m,
                                        !.result = r.result,
                                        !.fallback =
                                            /\ ~r.aborted
                                            /\ r.result.some
                                            /\ r.result.node_to_restart # None
                                            /\ RerunFallsBack(r.diagram,
                                                   <<r.result.node_to_restart>>),
                                        !.prior_cache = history.cache,
                                        !.prior_diagram = history.cache_diagram,
                                        !.prior_fitness = fitness,
                                        !.returned =
                                            IF r.aborted THEN "pending"
                                            ELSE IF ~RescoreDue(r.result) THEN "false"
                                            ELSE IF samples = <<>>
                                                 THEN FitnessDiffers(0, fitness)
                                                 ELSE "pending"]
          /\ IF r.aborted
             THEN /\ pc' = "aborted"
                  /\ UNCHANGED <<fitness, mode, cur, start, eval, pending, acc>>
             ELSE IF RescoreDue(r.result)
                  THEN /\ start' = r.result.node_to_restart
                       /\ mode' = "rescore"
                       /\ acc' = 0
                       /\ IF samples = <<>>
                          THEN /\ fitness' = 0
                               /\ UNCHANGED <<pc, cur, eval, pending>>
                          ELSE /\ pc' = "run"
                               /\ cur' = 1
                               /\ \E order \in orders :
                                     LET p == Prelude("rescore", r.diagram, 1,
                                                      r.result.node_to_restart, order)
                                     IN eval' = p.eval /\ pending' = p.pending
                               /\ UNCHANGED fitness
                  ELSE UNCHANGED <<fitness, pc, mode, cur, start, eval, pending, acc>>
    /\ UNCHANGED <<samples, orders, evaluations, call, ret, mutation_state>>

MutateAndRescore(m) == MutateAndRescoreUpTo(m, MaxMutations)

Next ==
    \/ Evaluate
    \/ RunPendingStep
    \/ FinishSample
    \/ \E m \in Mutations : MutateAndRescore(m)

Spec == Init /\ [][Next]_vars

----------------------------------------------------------------------------
(* What the checks compare.                                                 *)

(* The from-scratch evaluation of the current diagram on sample i.          *)
FromScratch(i) == run_multi(diagram, samples[i].input)

(* Every stored Evaluation has the facts of the from-scratch evaluation of  *)
(* the current diagram.                                                     *)
SameFactsAsFromScratch ==
    \A i \in 1..Len(samples) :
        ~FromScratch(i).aborted =>
            FactSet(evaluations[i].total_db) = FactSet(FromScratch(i).eval.total_db)

(* A rescoring has just finished.                                           *)
Rescored == pc = "idle" /\ history.cache = "rerun_from"

(* The rescoring started from Evaluations that run_multi had computed for   *)
(* the diagram the mutation was applied to.                                 *)
RescoredFromScratchCache ==
    /\ Rescored
    /\ history.prior_cache = "run_multi"
    /\ history.prior_diagram = history.before

(* C1: incremental = full.  After a mutation with node_to_restart = Some(n) *)
(* and rerun_from(d', db, [n]) on the from-scratch Evaluations of d, every  *)
(* total_db has the facts of a from-scratch evaluation of d'.               *)
C1_IncrementalEqualsFull ==
    (RescoredFromScratchCache /\ history.result.node_to_restart # None)
        => SameFactsAsFromScratch

(* C2: an empty start list forces a full rebuild.  After a mutation with    *)
(* node_to_restart = None (RemoveNode, SetEdge{Root}) and                   *)
(* rerun_from(d, db, []) on the Evaluations held before, every total_db has *)
(* the facts of a from-scratch evaluation of the current diagram.           *)
C2_EmptyStartRebuilds ==
    (Rescored /\ history.result.node_to_restart = None) => SameFactsAsFromScratch

(* The fitness the from-scratch evaluations of the current diagram give:    *)
(* minus the sum over the samples of db_cost(expected, total_db).           *)
RECURSIVE FromScratchCost(_)
FromScratchCost(i) ==
    IF i = 0 THEN 0
    ELSE FromScratchCost(i - 1)
         + db_cost(samples[i].expected, FromScratch(i).eval.total_db)

FromScratchCompletes == \A i \in 1..Len(samples) : ~FromScratch(i).aborted

(* C3: an individual that started with blank Evaluations holds, whenever it *)
(* has been rescored, the fitness of the from-scratch evaluations of its    *)
(* current diagram.                                                         *)
C3_FitnessIsFromScratch ==
    (Rescored /\ history.kind = "individual" /\ FromScratchCompletes)
        => fitness = 0 - FromScratchCost(Len(samples))

(* The last call of apply_mutation returned                                 *)
(* phenotype_could_have_changed = false.                                    *)
PhenotypeKept ==
    /\ pc # "aborted"
    /\ history.result.some
    /\ ~history.result.phenotype_could_have_changed

(* C4: when apply_mutation returns phenotype_could_have_changed = false,    *)
(* the from-scratch evaluation of the diagram after the mutation has, on    *)
(* every input, the facts of the from-scratch evaluation of the diagram     *)
(* before it.                                                               *)
C4_UnchangedPhenotypeIsSound ==
    PhenotypeKept =>
        \A i \in 1..Len(samples) :
            LET before == run_multi(history.before, samples[i].input)
            IN (~before.aborted /\ ~FromScratch(i).aborted) =>
                   FactSet(before.eval.total_db) = FactSet(FromScratch(i).eval.total_db)

----------------------------------------------------------------------------
(* Chain diagrams: a root, Match nodes linked by their match arms, one      *)
(* Output node at the end (tests::can_evaluate_copying_diagram and          *)
(* tests::can_evaluate_nested_filtering_diagram are chains of one and two   *)
(* Match nodes).                                                            *)

MaxChain == 9
MaxPrefix == 2

ChainDiagram(matches, output) ==
    Diagram(NumRegisters, Append(matches, output), 0,
            [i \in 1..Len(matches) |-> SetUpdate("on_match", i - 1, i)])

MatchMenu ==
    {MatchNode(0, <<MatchTerm(Free, 0), MatchTerm(Free, 1)>>),
     MatchNode(0, <<MatchTerm(Constant(1), 0), MatchTerm(Free, 1)>>),
     MatchNode(0, <<MatchTerm(Register(1), None), MatchTerm(Free, 1)>>),
     MatchNode(1, <<MatchTerm(Register(1), 0), MatchTerm(Free, None)>>)}

OutputMenu ==
    {OutputNode(1, <<Register(0), Register(1)>>),
     OutputNode(1, <<Constant(0), Constant(0)>>)}

(* The sequences of Match nodes of the chains: every sequence of at most    *)
(* MaxPrefix nodes of the menu, and every repetition of one node of the     *)
(* menu up to MaxChain times.                                               *)
ChainMatches ==
    UNION {[1..k -> MatchMenu] : k \in 0..MaxPrefix}
    \cup {[i \in 1..k |-> n] : k \in 1..MaxChain, n \in MatchMenu}

DbLinks ==
    database_literal(<<Fact(0, <<1, 2>>), Fact(0, <<2, 2>>), Fact(0, <<2, 3>>),
                       Fact(1, <<2, 1>>)>>)

ChainScenarios ==
    {Scenario("client", ChainDiagram(m, o), <<Sample(db, DbEmpty)>>, AnyOrder) :
        m \in ChainMatches, o \in OutputMenu, db \in {DbEmpty, DbPairs, DbLinks}}

InitChain == \E sc \in ChainScenarios : InitOf(sc)

NextChain ==
    \/ Evaluate
    \/ RunPendingStep
    \/ FinishSample

SpecChain == InitChain /\ [][NextChain]_vars

(* The nodes on the path from the root along the match arms, up to the      *)
(* first Output node.                                                       *)
RECURSIVE PathFrom(_, _, _)
PathFrom(d, node, fuel) ==
    IF fuel = 0 \/ node = None THEN <<>>
    ELSE IF get_node(d, node).kind = "Output" THEN <<get_node(d, node)>>
    ELSE <<get_node(d, node)>> \o PathFrom(d, get_on_match(d, node), fuel - 1)

ChainPath(d) == PathFrom(d, get_root(d), DiagramLen(d))

(* The reference set of a chain.  A binding is a register file; a fact of   *)
(* a Match node's predicate is chosen when it satisfies every constraint    *)
(* under the binding, and the chosen fact's values are written to the term  *)
(* targets; the Output node's terms are instantiated under each binding     *)
(* left after the last Match node.                                          *)
RefSatisfies(term, binding, value) ==
    \/ term.constraint.tag = "Free"
    \/ term.constraint.tag = "Constant" /\ term.constraint.arg = value
    \/ term.constraint.tag = "Register" /\ binding[term.constraint.arg + 1] = value

RefChoices(node, binding, db) ==
    {row \in SeqToSet(facts_for_predicate(db, node.predicate)) :
        \A i \in 1..Len(node.terms) : RefSatisfies(node.terms[i], binding, row[i])}

RefWrite(node, binding, row) ==
    [r \in 1..Len(binding) |->
        IF \E i \in 1..Len(node.terms) : node.terms[i].target = r - 1
        THEN row[SetMax({i \in 1..Len(node.terms) : node.terms[i].target = r - 1})]
        ELSE binding[r]]

RECURSIVE RefBindings(_, _, _)
RefBindings(path, db, bindings) ==
    IF path = <<>> \/ path[1].kind = "Output" THEN bindings
    ELSE RefBindings(Tail(path), db,
             UNION {{RefWrite(path[1], b, row) : row \in RefChoices(path[1], b, db)} :
                       b \in bindings})

RefInstance(terms, binding) ==
    [i \in 1..Len(terms) |->
        IF terms[i].tag = "Constant" THEN terms[i].arg
        ELSE IF binding[terms[i].arg + 1] = None THEN Nil
        ELSE binding[terms[i].arg + 1]]

RefFacts(d, db) ==
    LET path == ChainPath(d)
        output == Last(path)
    IN {<<output.predicate, RefInstance(output.terms, b)>> :
           b \in RefBindings(path, db, {RegisterFileNew(d.num_registers)})}

NumMatchNodes(d) == Len(ChainPath(d)) - 1

(* A from-scratch evaluation of the diagram has just finished.              *)
Evaluated == pc = "idle" /\ history.cache = "run_multi" /\ nmut = 0

(* C5 as the spec states it: the total_db of evaluate() on a chain diagram  *)
(* has exactly the facts of the reference set.                              *)
C5_ChainIsReference ==
    Evaluated =>
        \A i \in 1..Len(samples) :
            FactSet(evaluations[i].total_db) = RefFacts(diagram, samples[i].input)

(* C5, amended: the total_db of evaluate() on a chain diagram of at most    *)
(* max_depth Match nodes has exactly the facts of the reference set.        *)
C5_ShortChainIsReference ==
    (Evaluated /\ NumMatchNodes(diagram) <= DEFAULT_MAX_DEPTH) =>
        \A i \in 1..Len(samples) :
            FactSet(evaluations[i].total_db) = RefFacts(diagram, samples[i].input)

(* C5, witness: a chain of max_depth Match nodes was evaluated and its      *)
(* Output node emitted a fact.                                              *)
C5_Witness ==
    /\ Evaluated
    /\ NumMatchNodes(diagram) = DEFAULT_MAX_DEPTH
    /\ FactSet(evaluations[1].total_db) # {}

----------------------------------------------------------------------------
(* Evaluations whose worklist hands out its entries in any order.           *)

AnyOrderScenarios ==
    {Scenario("client", DiagramWalk, <<Sample(DbWalk, DbEmpty)>>, OneOrder),
     Scenario("client", DiagramJoin, <<Sample(DbPairs, ExpectedCopy)>>, AnyOrder),
     Scenario("client", DiagramNested, <<Sample(DbPairs, ExpectedCopy)>>, AnyOrder)}

InitAnyOrder == \E sc \in AnyOrderScenarios : InitOf(sc)

NextAnyOrder ==
    \/ Evaluate
    \/ RunPendingAny
    \/ FinishSample

SpecAnyOrder == InitAnyOrder /\ [][NextAnyOrder]_vars

(* The register files of every node's input, matches and refutes.           *)
NodeKeys(states) ==
    [n \in 1..Len(states) |->
        [input |-> Keys(states[n].input),
         matches |-> Keys(states[n].output.matches),
         refutes |-> Keys(states[n].output.refutes)]]

(* C6: confluence.  Whatever the order in which run_pending takes the       *)
(* entries of its worklist, at quiescence every node's input, matches and   *)
(* refutes hold the register files, and total_db the facts, they hold when  *)
(* the entries are taken last-in first-out.                                 *)
C6_Confluence ==
    Evaluated =>
        \A i \in 1..Len(samples) :
            ~FromScratch(i).aborted =>
                /\ NodeKeys(evaluations[i].states) = NodeKeys(FromScratch(i).eval.states)
                /\ FactSet(evaluations[i].total_db) = FactSet(FromScratch(i).eval.total_db)

----------------------------------------------------------------------------
(* The stored Evaluations are those of run_multi on the current diagram:    *)
(* a client's from-scratch evaluation, or a rescoring whose rerun_from fell *)
(* back to run_multi.                                                       *)
RanMulti ==
    /\ pc = "idle"
    /\ \/ history.cache = "run_multi" /\ nmut = 0
       \/ history.cache = "rerun_from" /\ history.fallback

(* What one more propagation of node n's accumulated input derives.         *)
OneMoreStep(e, n, db) ==
    propagate(get_node(diagram, n - 1), db, e.states[n].input, e.max_depth, "asc")

TargetsHold(e, targets, keys) ==
    \A t \in 1..Len(targets) : keys \subseteq Keys(e.states[targets[t] + 1].input)

FixpointAt(e, n, db) ==
    LET out == OneMoreStep(e, n, db)
    IN get_node(diagram, n - 1).kind = "Match" =>
          /\ Keys(out.matches) \subseteq Keys(e.states[n].output.matches)
          /\ Keys(out.refutes) \subseteq Keys(e.states[n].output.refutes)
          /\ TargetsHold(e, match_target_group(diagram, n - 1), Keys(out.matches))
          /\ TargetsHold(e, refute_target_group(diagram, n - 1), Keys(out.refutes))

(* C7: fixpoint.  Once run_multi has finished, propagating any node's       *)
(* accumulated input (with the recorded depths) derives no register file    *)
(* that is missing from the node's matches or refutes or from the input of  *)
(* the target on the matching arm.                                          *)
C7_Fixpoint ==
    RanMulti =>
        \A i \in 1..Len(samples) :
            \A n \in 1..Len(evaluations[i].states) :
                FixpointAt(evaluations[i], n, samples[i].input)

(* C7, witness: run_multi has finished on a diagram where a node's input    *)
(* derives refutes that its refute target holds.                            *)
C7_Witness ==
    /\ RanMulti
    /\ \E n \in 1..Len(evaluations[1].states) :
          /\ refute_target_group(diagram, n - 1) # <<>>
          /\ get_node(diagram, n - 1).kind = "Match"
          /\ Keys(OneMoreStep(evaluations[1], n, samples[1].input).refutes) # {}
          /\ Keys(OneMoreStep(evaluations[1], n, samples[1].input).matches) # {}

(* C8: evaluator purity.  Whatever order the register sets are iterated in, *)
(* run_multi on a diagram and an input yields the facts of the evaluation   *)
(* that iterates every register set in ascending order.                     *)
C8_Purity ==
    RanMulti =>
        \A i \in 1..Len(samples) :
            ~FromScratch(i).aborted =>
                FactSet(evaluations[i].total_db) = FactSet(FromScratch(i).eval.total_db)

(* C8, witness: run_multi has finished and the iteration order left its     *)
(* trace: total_db holds the facts of the ascending evaluation in another   *)
(* row order.                                                               *)
C8_Witness ==
    /\ RanMulti
    /\ ~FromScratch(1).aborted
    /\ evaluations[1].total_db # FromScratch(1).eval.total_db
    /\ FactSet(evaluations[1].total_db) # {}

----------------------------------------------------------------------------
(* run_pending is a loop that runs until the worklist is empty or a panic   *)
(* unwinds it, and the sample's evaluation is then stored: while an         *)
(* evaluation is running its next iteration is eventually taken.  This is   *)
(* WF_vars(RunPendingStep \/ FinishSample) with the enabling condition      *)
(* written out: one of the two is possible exactly when pc = "run", given   *)
(* that every iteration changes the state (EveryIterationActs).             *)
Fairness == []<>(pc # "run") \/ []<><<RunPendingStep \/ FinishSample>>_vars

SpecFair == Init /\ [][Next]_vars /\ Fairness

(* No iteration of run_pending leaves the worklist and the node states as   *)
(* they were.                                                               *)
EveryIterationActs ==
    (/\ pc = "run"
     /\ pending # <<>>
     /\ ~RunPendingIterationAborts(diagram, samples[cur].input, eval.states,
                                   eval.max_depth, pending, Len(pending))) =>
        \A order \in orders :
            LET it == RunPendingIteration(diagram, samples[cur].input, eval.states,
                                          eval.max_depth, pending, Len(pending), order)
            IN it.pending # pending \/ it.states # eval.states

(* C9: termination.  run_pending, once started on a diagram (cycles and     *)
(* self-loops included) and a finite input database, reaches an empty       *)
(* worklist and returns (or a panic unwinds it): every iteration acts, and  *)
(* a non-empty worklist leads to an empty one.                              *)
C9_Termination ==
    /\ []EveryIterationActs
    /\ (pc = "run" /\ pending # <<>>) ~> (pending = <<>> \/ pc = "aborted")

(* C9, witness: run_pending has returned from a diagram with a cycle after  *)
(* the cycle's nodes were evaluated.                                        *)
C9_Witness ==
    /\ pc = "idle"
    /\ pending = <<>>
    /\ \E n \in 1..Len(evaluations[1].states) :
          /\ n <= DiagramLen(diagram)
          /\ RerunFallsBack(diagram, <<n - 1>>)
          /\ \E k \in Keys(evaluations[1].states[n].input) :
                 evaluations[1].states[n].input[k].depth > DiagramLen(diagram)

AllRegisterSets(states) ==
    UNION {{states[n].input} \cup
           (IF states[n].output.kind = "Match"
            THEN {states[n].output.matches, states[n].output.refutes} ELSE {})
           : n \in 1..Len(states)}

DepthsWithin(sets, max_depth) ==
    \A set \in sets : \A k \in Keys(set) : set[k].depth <= max_depth

DeepEntries(set, max_depth) ==
    [k \in {k \in Keys(set) : set[k].depth >= max_depth} |-> set[k]]

DeepDerivesNothing(d, db, e) ==
    \A n \in 1..Len(e.states) :
        (n <= DiagramLen(d) /\ get_node(d, n - 1).kind = "Match") =>
            LET out == propagate(get_node(d, n - 1), db,
                                 DeepEntries(e.states[n].input, e.max_depth),
                                 e.max_depth, "asc")
            IN Keys(out.matches) = {} /\ Keys(out.refutes) = {}

(* C10: depth bound.  In every state of run_multi and rerun_from no         *)
(* register file in a node's input, matches or refutes, or on the worklist, *)
(* has a depth above max_depth, and a Match node derives nothing from an    *)
(* input binding whose depth is max_depth or more.                          *)
C10_DepthBound ==
    /\ \A i \in 1..Len(evaluations) :
          /\ DepthsWithin(AllRegisterSets(evaluations[i].states), evaluations[i].max_depth)
          /\ i <= Len(samples) =>
                DeepDerivesNothing(diagram, samples[i].input, evaluations[i])
    /\ pc = "run" =>
          /\ DepthsWithin(AllRegisterSets(eval.states), eval.max_depth)
          /\ DepthsWithin({pending[j].regs : j \in 1..Len(pending)}, eval.max_depth)
          /\ DeepDerivesNothing(diagram, samples[cur].input, eval)

(* C10, witness: an evaluation has ended with a Match node holding an input *)
(* binding at depth max_depth that a deeper bound would have derived from.  *)
C10_Witness ==
    /\ pc = "idle"
    /\ \E n \in 1..Len(evaluations[1].states) :
          /\ n <= DiagramLen(diagram)
          /\ get_node(diagram, n - 1).kind = "Match"
          /\ LET e == evaluations[1]
                 deep == DeepEntries(e.states[n].input, e.max_depth)
             IN /\ Keys(deep) # {}
                /\ Keys(propagate(get_node(diagram, n - 1), samples[1].input, deep,
                                  e.max_depth + 1, "asc").matches) # {}

----------------------------------------------------------------------------
(* The derivations of a diagram level by level, without a worklist: the     *)
(* pairs (node, register file) first derived after `depth` Match nodes.     *)

(* What the Match nodes of `pairs` hand to their targets.                   *)
Derive(d, db, pairs) ==
    UNION {LET node == get_node(d, p.node)
               out == propagate_match_node_into_output(
                          node.predicate, node.terms, db, p.rf, 1, 0,
                          RegisterSetNew, RegisterSetNew)
               mt == match_target_group(d, p.node)
               rt == refute_target_group(d, p.node)
           IN IF node.kind # "Match" THEN {}
              ELSE {[node |-> mt[i], rf |-> r] : i \in 1..Len(mt), r \in Keys(out.matches)}
                   \cup {[node |-> rt[i], rf |-> r] :
                            i \in 1..Len(rt), r \in Keys(out.refutes)}
           : p \in pairs}

RECURSIVE ShortestFrom(_, _, _, _, _, _)
ShortestFrom(d, db, max_depth, depth, frontier, found) ==
    LET new == {p \in frontier : \A f \in found : f.node # p.node \/ f.rf # p.rf}
        all == found \cup {[node |-> p.node, rf |-> p.rf, depth |-> depth] : p \in new}
    IN IF new = {} THEN found
       ELSE IF depth >= max_depth THEN all
       ELSE ShortestFrom(d, db, max_depth, depth + 1, Derive(d, db, new), all)

(* The shortest derivation depth of every binding that reaches a node.      *)
ShortestDepths(d, db, max_depth) ==
    ShortestFrom(d, db, max_depth, 0,
                 {[node |-> ValidRoots(d)[i], rf |-> RegisterFileNew(d.num_registers)] :
                     i \in 1..Len(ValidRoots(d))},
                 {})

InputDepths(states) ==
    UNION {{[node |-> n - 1, rf |-> rf, depth |-> states[n].input[rf].depth] :
               rf \in Keys(states[n].input)} : n \in 1..Len(states)}

(* C11: shortest depth.  At quiescence of run_multi the depth recorded for  *)
(* a register file in a node's input is the shortest derivation depth at    *)
(* which that binding reaches the node.                                     *)
C11_RecordedDepthIsShortest ==
    RanMulti =>
        \A i \in 1..Len(samples) :
            ~FromScratch(i).aborted =>
                InputDepths(evaluations[i].states)
                    \subseteq ShortestDepths(diagram, samples[i].input,
                                             evaluations[i].max_depth)

----------------------------------------------------------------------------
(* A node applied to one binding on its own: propagate_match_node_into_     *)
(* output and propagate_output_node_into_output called with one register    *)
(* file, a weight and a depth, on empty matches, refutes and database.      *)

MaxArity == 2

machine == <<diagram, samples, orders, evaluations, fitness, pc, mode, cur, start, eval, pending, acc, nmut, history, mutation_state>>

(* The state around a single call: no diagram is being evaluated.           *)
CallInit(c) ==
    /\ diagram = GraphDiagramNew(NumRegisters)
    /\ samples = <<>>
    /\ orders = IterOrders
    /\ evaluations = <<>>
    /\ fitness = FITNESS_UNSCORED
    /\ pc = "call"
    /\ mode = "none"
    /\ cur = 0
    /\ start = None
    /\ eval = EvaluationNew
    /\ pending = <<>>
    /\ acc = 0
    /\ nmut = 0
    /\ history = History(GraphDiagramNew(NumRegisters), "client")
    /\ call = c
    /\ ret = NoCall
    /\ mutation_state = IndividualMutationStateNew

(* Register indices, one of them past the end of the register file.         *)
AnyRegister == 0..NumRegisters

MatchTermMenu ==
    {MatchTerm(c, t) :
        c \in {Free, Constant(1)} \cup {Register(r) : r \in AnyRegister},
        t \in {None} \cup AnyRegister}

OutputTermMenu == {Constant(0), Constant(1)} \cup {Register(r) : r \in AnyRegister}

RegisterFiles == [1..NumRegisters -> {None} \cup Values]

(* Input databases whose table of predicate 0 has MaxArity columns, one     *)
(* column less, or no row at all.                                           *)
DbUnary == database_literal(<<Fact(0, <<1>>), Fact(0, <<2>>)>>)

NodeDatabases == {DbPairs, DbUnary, DbEmpty}

Bindings == {[weight |-> 1, depth |-> 0], [weight |-> 2, depth |-> 3]}

NodeCalls ==
    {[op |-> "match", predicate |-> 0, terms |-> terms, database |-> db,
      register_file |-> rf, weight |-> b.weight, depth |-> b.depth] :
        terms \in UNION {[1..k -> MatchTermMenu] : k \in 1..MaxArity},
        db \in NodeDatabases, rf \in RegisterFiles, b \in Bindings}
    \cup {[op |-> "output", predicate |-> 1, terms |-> terms,
           register_file |-> rf, weight |-> b.weight] :
            terms \in UNION {[1..k -> OutputTermMenu] : k \in 1..MaxArity},
            rf \in RegisterFiles, b \in Bindings}

InitNode == \E c \in NodeCalls : CallInit(c)

ApplyMatchNode ==
    /\ pc = "call"
    /\ call.op = "match"
    /\ ret = NoCall
    /\ ret' = IF MatchNodeAborts(call.predicate, call.terms, call.database,
                                 call.register_file)
              THEN [op |-> "match", aborted |-> TRUE]
              ELSE LET out == propagate_match_node_into_output(
                                  call.predicate, call.terms, call.database,
                                  call.register_file, call.weight, call.depth,
                                  RegisterSetNew, RegisterSetNew)
                   IN [op |-> "match", aborted |-> FALSE, matches |-> out.matches,
                       refutes |-> out.refutes, found_new_state |-> out.new]
    /\ UNCHANGED <<machine, call>>

ApplyOutputNode ==
    /\ pc = "call"
    /\ call.op = "output"
    /\ ret = NoCall
    /\ ret' = [op |-> "output",
               db |-> propagate_output_node_into_output(
                          call.predicate, call.terms, call.register_file,
                          call.weight, DatabaseNew)]
    /\ UNCHANGED <<machine, call>>

NextNode == ApplyMatchNode \/ ApplyOutputNode

SpecNode == InitNode /\ [][NextNode]_vars

(* The statement of a Match node's effect on one binding, fact by fact.     *)
TermHolds(term, rf, v) ==
    CASE term.constraint.tag = "Free" -> TRUE
      [] term.constraint.tag = "Constant" -> v = term.constraint.arg
      [] term.constraint.tag = "Register" ->
            /\ rf[term.constraint.arg + 1] # None
            /\ rf[term.constraint.arg + 1] = v

FactHolds(terms, rf, f) == \A i \in 1..Len(terms) : TermHolds(terms[i], rf, f[i])

(* rf with slot t set to f[i] for every term i with target t, in term order. *)
RECURSIVE WithTargets(_, _, _, _)
WithTargets(terms, f, i, file) ==
    IF i > Len(terms) THEN file
    ELSE WithTargets(terms, f, i + 1,
                     IF terms[i].target = None THEN file
                     ELSE [file EXCEPT ![terms[i].target + 1] = f[i]])

(* The set that one push per fact of `facts` builds: every pushed file with *)
(* depth d + 1 and weight w times the number of facts that push it.         *)
OnePushEach(terms, rf, rows, facts, w, d) ==
    [k \in {WithTargets(terms, rows[i], 1, rf) : i \in facts} |->
        [weight |-> w * Cardinality({i \in facts : WithTargets(terms, rows[i], 1, rf) = k}),
         depth |-> d + 1]]

(* The call returned without a panic, and every term of the node has a      *)
(* column in the facts of the predicate.                                    *)
MatchApplied ==
    /\ ret.op = "match"
    /\ ~ret.aborted
    /\ \A i \in 1..Len(facts_for_predicate(call.database, call.predicate)) :
          Len(call.terms) <= Len(facts_for_predicate(call.database, call.predicate)[i])

(* C12: a Match node applied to one binding (rf, w, d).  Every fact of the  *)
(* predicate causes one push with weight w and depth d + 1, into matches    *)
(* iff every term holds against the incoming rf (an unbound register        *)
(* refutes), otherwise into refutes; the pushed file is rf with the targets *)
(* written, in the refuted branch too; without facts nothing is pushed.     *)
C12_MatchNodeOnOneBinding ==
    MatchApplied =>
        LET rows == facts_for_predicate(call.database, call.predicate)
            holding == {i \in 1..Len(rows) : FactHolds(call.terms, call.register_file, rows[i])}
        IN /\ ret.matches = OnePushEach(call.terms, call.register_file, rows, holding,
                                        call.weight, call.depth)
           /\ ret.refutes = OnePushEach(call.terms, call.register_file, rows,
                                        (1..Len(rows)) \ holding, call.weight, call.depth)

(* C12, witness: a Match node was applied to a binding with an unbound      *)
(* register that a term tests, the only term to refute; every fact was      *)
(* refuted and wrote its value into the pushed file.                        *)
C12_Witness ==
    /\ MatchApplied
    /\ Keys(ret.matches) = {}
    /\ \E k \in Keys(ret.refutes) : k # call.register_file /\ ret.refutes[k].weight > 1
    /\ \A i \in 1..Len(call.terms) : call.terms[i].constraint.tag # "Constant"
    /\ \E i \in 1..Len(call.terms) :
          /\ call.terms[i].constraint.tag = "Register"
          /\ call.register_file[call.terms[i].constraint.arg + 1] = None

(* The value an Output term stands for; a register past the end of the      *)
(* register file stands for none.                                           *)
TermValue(term, rf) ==
    IF term.tag = "Constant" THEN term.arg
    ELSE IF rf[term.arg + 1] # None THEN rf[term.arg + 1] ELSE Nil

ExpectedOutputValues(terms, rf) ==
    LET kept == SelectSeq([i \in 1..Len(terms) |-> i],
                          LAMBDA i : terms[i].tag = "Constant" \/ terms[i].arg < Len(rf))
    IN [j \in 1..Len(kept) |-> TermValue(terms[kept[j]], rf)]

(* C13: an Output node applied to a binding (rf, w) inserts exactly one     *)
(* fact, with weight w; its values are, in term order, v for Constant(v),   *)
(* the bound value or Nil for Register(r), and none for a register r past   *)
(* the end of rf (a shorter tuple).                                         *)
C13_OutputNodeOnOneBinding ==
    ret.op = "output" =>
        /\ DOMAIN ret.db = {call.predicate}
        /\ ret.db[call.predicate].rows
              = <<ExpectedOutputValues(call.terms, call.register_file)>>
        /\ ret.db[call.predicate].row_weights = <<call.weight>>

(* C13, witness: an Output node was applied whose terms name an unbound     *)
(* register and a register past the end of the register file; the inserted  *)
(* fact holds Nil and is shorter than the terms.                            *)
C13_Witness ==
    /\ ret.op = "output"
    /\ \E i \in 1..Len(call.terms) :
          call.terms[i].tag = "Register" /\ call.terms[i].arg >= NumRegisters
    /\ ret.db[call.predicate].rows = <<<<Nil>>>>
    /\ call.weight > 1

----------------------------------------------------------------------------
(* Database weight(f): the sum of the weights of the rows equal to f.       *)
DatabaseWeight(db, predicate, values) ==
    IF predicate \notin DOMAIN db THEN 0
    ELSE SumSeq([i \in 1..Len(db[predicate].rows) |->
                    IF db[predicate].rows[i] = values
                    THEN db[predicate].row_weights[i] ELSE 0])

OutputWeight(states, predicate, values) ==
    SumSeq([n \in 1..Len(states) |->
               IF states[n].output.kind = "Output"
               THEN DatabaseWeight(states[n].output.db, predicate, values) ELSE 0])

OutputFactSet(states) ==
    UNION {IF states[n].output.kind = "Output" THEN FactSet(states[n].output.db) ELSE {}
           : n \in 1..Len(states)}

(* C14: after run_multi or rerun_from, the weight of every fact in total_db *)
(* is the sum, over the Output nodes, of the fact's weight in the node's    *)
(* output database.                                                         *)
C14_TotalDbWeights ==
    pc = "idle" =>
        \A i \in 1..Len(evaluations) :
            \A f \in FactSet(evaluations[i].total_db) \cup OutputFactSet(evaluations[i].states) :
                DatabaseWeight(evaluations[i].total_db, f[1], f[2])
                    = OutputWeight(evaluations[i].states, f[1], f[2])

----------------------------------------------------------------------------
(* The cost over distinct facts: one per fact of actual missing from        *)
(* expected, two per fact of expected missing from actual.                  *)
SetCost(expected, actual) ==
    Cardinality(FactSet(actual) \ FactSet(expected))
    + 2 * Cardinality(FactSet(expected) \ FactSet(actual))

(* C15: db_cost(expected, actual) is |A \ E| + 2 * |E \ A| over distinct    *)
(* facts (duplicates contribute once): the fitness rescore stores is minus  *)
(* the sum of that cost over the samples.                                   *)
C15_DbCostOverDistinctFacts ==
    (pc = "idle" /\ fitness # FITNESS_UNSCORED) =>
        fitness = 0 - SumSeq([i \in 1..Len(samples) |->
                                 SetCost(samples[i].expected, evaluations[i].total_db)])

----------------------------------------------------------------------------
(* RegisterSet::push on its own: sequences of at most MaxPushes pushes into *)
(* a new RegisterSet, with signed weights (zero and retractions included).  *)

MaxPushes == 3

PushWeights == {-1, 0, 1, 2}

PushDepths == {0, 1, 2}

PushFiles == {RegisterFileNew(NumRegisters), [RegisterFileNew(NumRegisters) EXCEPT ![1] = 1]}

(* The set the pushes made so far have built, and their number.             *)
PushedSet == IF ret.op = "push" THEN ret.set ELSE RegisterSetNew

Pushed == IF ret.op = "push" THEN ret.count ELSE 0

InitRegisterSet == CallInit([op |-> "new"])

Push(rf, weight, depth) ==
    /\ pc = "call"
    /\ call.op \in {"new", "push"}
    /\ Pushed < MaxPushes
    /\ LET out == RegisterSetPush(PushedSet, rf, weight, depth)
       IN /\ call' = [op |-> "push", rf |-> rf, weight |-> weight, depth |-> depth,
                      before |-> PushedSet]
          /\ ret' = [op |-> "push", set |-> out.set, new |-> out.new,
                     count |-> Pushed + 1]
    /\ UNCHANGED machine

NextRegisterSet ==
    \E rf \in PushFiles, weight \in PushWeights, depth \in PushDepths :
        Push(rf, weight, depth)

SpecRegisterSet == InitRegisterSet /\ [][NextRegisterSet]_vars

OthersUnchanged ==
    \A k \in (Keys(call.before) \cup Keys(ret.set)) \ {call.rf} :
        k \in Keys(call.before) /\ k \in Keys(ret.set) /\ ret.set[k] = call.before[k]

(* C16 as stated: push returns true exactly when rf was not a key before;   *)
(* when rf was present its weight becomes old weight + w and its depth      *)
(* min(old depth, d); all other entries are unchanged.                      *)
C16_PushUpdatesSlot ==
    ret.op = "push" =>
        /\ ret.new = (call.rf \notin Keys(call.before))
        /\ call.rf \in Keys(call.before) =>
              /\ call.rf \in Keys(ret.set)
              /\ ret.set[call.rf].weight = call.before[call.rf].weight + call.weight
              /\ ret.set[call.rf].depth = Min2(call.before[call.rf].depth, call.depth)
        /\ OthersUnchanged

(* C16, amended: push returns true exactly when rf was not a key before;    *)
(* when rf was present and old weight + w is not 0, its weight becomes old  *)
(* weight + w and its depth min(old depth, d); when old weight + w is 0 the *)
(* entry is removed; all other entries are unchanged.                       *)
C16_PushUpdatesOrRemovesSlot ==
    ret.op = "push" =>
        /\ ret.new = (call.rf \notin Keys(call.before))
        /\ call.rf \in Keys(call.before) =>
              IF call.before[call.rf].weight + call.weight = 0
              THEN call.rf \notin Keys(ret.set)
              ELSE /\ call.rf \in Keys(ret.set)
                   /\ ret.set[call.rf].weight
                         = call.before[call.rf].weight + call.weight
                   /\ ret.set[call.rf].depth
                         = Min2(call.before[call.rf].depth, call.depth)
        /\ OthersUnchanged

(* C16, witness: a push onto a present register file lowered its depth and  *)
(* added to its weight while another entry stayed as it was.                *)
C16_Witness ==
    /\ ret.op = "push"
    /\ call.rf \in Keys(call.before)
    /\ call.rf \in Keys(ret.set)
    /\ ret.set[call.rf].depth < call.before[call.rf].depth
    /\ ret.set[call.rf].weight > call.before[call.rf].weight
    /\ Keys(ret.set) # {call.rf}
    /\ ~ret.new

(* C17: zero-weight elision.  After any sequence of pushes with signed      *)
(* weights, no register file remains in the set with net weight 0.          *)
C17_ZeroWeightElision ==
    \A rf \in Keys(PushedSet) : PushedSet[rf].weight # 0

----------------------------------------------------------------------------
(* The mutations that do not apply to a diagram: a node index past the end  *)
(* of the diagram (as term node, edge source, edge target or new root), a   *)
(* term mutation on a node of the other kind, or a term index past the      *)
(* node's terms.                                                            *)
MatchTermTypes == {"SetConstraintRegister", "SetConstraintConstant", "SetConstraintFree", "SetTarget"}

OutputTermTypes == {"SetOutputRegister", "SetOutputConstant"}

Inapplicable(d, m) ==
    CASE m.type \in MatchTermTypes \cup OutputTermTypes ->
            \/ m.node >= DiagramLen(d)
            \/ get_node(d, m.node).kind
                  # (IF m.type \in MatchTermTypes THEN "Match" ELSE "Output")
            \/ m.term >= Len(get_node(d, m.node).terms)
      [] m.type = "SetEdge" ->
            \/ m.edge.tag # "Root" /\ m.edge.src >= DiagramLen(d)
            \/ m.target >= DiagramLen(d)
      [] m.type = "InsertPassthrough" ->
            m.edge.tag # "Root" /\ m.edge.src >= DiagramLen(d)
      [] m.type \in {"RemoveNode", "SetPredicate"} -> m.node >= DiagramLen(d)
      [] OTHER -> FALSE

(* C18: an inapplicable mutation is reported as None and leaves the diagram *)
(* unchanged: apply_mutation returns None without aborting and without      *)
(* modifying any node, edge or root.                                        *)
C18_InapplicableIsNone ==
    Inapplicable(history.before, history.mutation) =>
        /\ pc # "aborted"
        /\ ~history.result.some
        /\ diagram = history.before

----------------------------------------------------------------------------
(* run_multi on diagrams whose terms name registers up to one past the end  *)
(* of the register file: a root Match node of MaxArity terms of the menu,   *)
(* followed by an Output node.                                              *)
RegisterScenarios ==
    {Scenario("client",
              ChainDiagram(<<MatchNode(0, terms)>>, OutputNode(1, <<Register(0), Register(r)>>)),
              <<Sample(DbPairs, DbEmpty)>>, AnyOrder) :
        terms \in [1..MaxArity -> MatchTermMenu], r \in AnyRegister}

InitRegisters == \E sc \in RegisterScenarios : InitOf(sc)

SpecRegisters == InitRegisters /\ [][NextChain]_vars

(* Some term of the diagram names a register past the end of the file.      *)
MatchOutOfRange(d) ==
    \E n \in 1..DiagramLen(d) :
        /\ d.graph[n].node.kind = "Match"
        /\ \E i \in 1..Len(d.graph[n].node.terms) :
              LET term == d.graph[n].node.terms[i]
              IN \/ term.constraint.tag = "Register" /\ term.constraint.arg >= d.num_registers
                 \/ term.target # None /\ term.target >= d.num_registers

OutputOutOfRange(d) ==
    \E n \in 1..DiagramLen(d) :
        /\ d.graph[n].node.kind = "Output"
        /\ \E i \in 1..Len(d.graph[n].node.terms) :
              LET term == d.graph[n].node.terms[i]
              IN term.tag = "Register" /\ term.arg >= d.num_registers

(* C19: the evaluator never fails on out-of-range registers: on a diagram   *)
(* with a Match constraint Register(r), a Match target t or an Output       *)
(* Register(r) at or past num_registers, run_multi does not abort.          *)
C19_OutOfRangeNeverAborts ==
    (MatchOutOfRange(diagram) \/ OutputOutOfRange(diagram)) => pc # "aborted"

----------------------------------------------------------------------------
(* The number of terms of the called Match node differs from the arity of   *)
(* the table of its predicate.                                              *)
ArityDiffers ==
    /\ call.op = "match"
    /\ call.predicate \in DOMAIN call.database
    /\ Len(call.terms) # call.database[call.predicate].num_columns

(* C20: if the number of terms of a Match node differs from the arity of    *)
(* the input table of its predicate, no fact of that predicate matches: the *)
(* node's matches stay empty for every input binding.                       *)
C20_ArityMismatchNeverMatches ==
    (ArityDiffers /\ ret.op = "match" /\ ~ret.aborted) => Keys(ret.matches) = {}

----------------------------------------------------------------------------
(* apply_mutation on its own: sequences of at most MaxSteps mutations of    *)
(* the catalogue applied to a diagram, without rescoring.  call holds the   *)
(* last mutation and the diagram it was applied to, ret what it returned.   *)

MaxSteps == 2

MutateDiagrams ==
    {DiagramCopy, DiagramNested, DiagramJoin, DiagramSpare, DiagramWalk,
     BlankDiagram(NumRegisters, 2, 2)}

InitMutate == \E d \in MutateDiagrams : InitOf(Scenario("client", d, <<>>, AnyOrder))

Steps == IF ret.op = "apply_mutation" THEN ret.count ELSE 0

ApplyMutation(m) ==
    /\ pc = "idle"
    /\ Steps < MaxSteps
    /\ LET r == apply_mutation(diagram, m)
       IN /\ diagram' = r.diagram
          /\ call' = [op |-> "apply_mutation", mutation |-> m, before |-> diagram]
          /\ ret' = [op |-> "apply_mutation", result |-> r.result,
                     aborted |-> r.aborted, count |-> Steps + 1]
          /\ pc' = IF r.aborted THEN "aborted" ELSE "idle"
    /\ UNCHANGED <<samples, orders, evaluations, fitness, mode, cur, start, eval,
                   pending, acc, nmut, history, mutation_state>>

NextMutate == \E m \in Mutations : ApplyMutation(m)

SpecMutate == InitMutate /\ [][NextMutate]_vars

(* The last mutation was of one of the types and returned Some.             *)
AppliedOf(types) ==
    /\ ret.op = "apply_mutation"
    /\ ~ret.aborted
    /\ ret.result.some
    /\ call.mutation.type \in types

(* The field a term- or predicate-setting mutation addresses, set to the    *)
(* mutation's value in the node `old`.                                      *)
FieldSet(old, m) ==
    LET i == m.term + 1
    IN CASE m.type = "SetConstraintRegister" ->
               [old EXCEPT !.terms[i].constraint = Register(m.register)]
         [] m.type = "SetConstraintConstant" ->
               [old EXCEPT !.terms[i].constraint = Constant(m.value)]
         [] m.type = "SetConstraintFree" -> [old EXCEPT !.terms[i].constraint = Free]
         [] m.type = "SetTarget" -> [old EXCEPT !.terms[i].target = m.register]
         [] m.type = "SetOutputRegister" -> [old EXCEPT !.terms[i] = Register(m.register)]
         [] m.type = "SetOutputConstant" -> [old EXCEPT !.terms[i] = Constant(m.value)]
         [] m.type = "SetPredicate" -> [old EXCEPT !.predicate = m.predicate]

FieldTypes == MatchTermTypes \cup OutputTermTypes \cup {"SetPredicate"}

(* C21: a term- or predicate-setting mutation that applies changes exactly  *)
(* the addressed field of node n (every other term of n, every other node,  *)
(* all edges and the root are unchanged) and returns                        *)
(* phenotype_could_have_changed = true with node_to_restart = Some(n).      *)
C21_FieldMutationFrame ==
    AppliedOf(FieldTypes) =>
        LET m == call.mutation
            b == call.before
        IN /\ ret.result.phenotype_could_have_changed
           /\ ret.result.node_to_restart = m.node
           /\ diagram.roots = b.roots
           /\ diagram.num_registers = b.num_registers
           /\ Len(diagram.graph) = Len(b.graph)
           /\ \A k \in 1..Len(b.graph) :
                 /\ diagram.graph[k].out_edges = b.graph[k].out_edges
                 /\ diagram.graph[k].in_edges = b.graph[k].in_edges
                 /\ diagram.graph[k].node
                       = IF k = m.node + 1 THEN FieldSet(b.graph[k].node, m)
                         ELSE b.graph[k].node

(* C21, witness: SetConstraintConstant applied to a term that has a target, *)
(* on a node with another term, in a diagram with edges; the node changed.  *)
C21_Witness ==
    /\ AppliedOf({"SetConstraintConstant"})
    /\ call.before.graph[call.mutation.node + 1].node.terms[call.mutation.term + 1].target # None
    /\ Len(call.before.graph[call.mutation.node + 1].node.terms) > 1
    /\ call.before.graph[call.mutation.node + 1].out_edges.on_match # <<>>
    /\ diagram # call.before

(* The last mutation was RemoveNode of the root of the diagram it was       *)
(* applied to.                                                              *)
RemovedRoot ==
    /\ ret.op = "apply_mutation"
    /\ call.mutation.type = "RemoveNode"
    /\ call.before.roots # <<>>
    /\ call.mutation.node = call.before.roots[1]
    /\ call.mutation.node < DiagramLen(call.before)

(* C22: RemoveNode applied to the diagram's root node returns None and      *)
(* leaves the diagram (nodes, edges, root) unchanged.                       *)
C22_RemoveRootIsNone ==
    RemovedRoot => /\ ~ret.aborted
                   /\ ~ret.result.some
                   /\ diagram = call.before

(* C22, witness: RemoveNode was applied to a root that other nodes point    *)
(* to and that has arms of its own.                                         *)
C22_Witness ==
    /\ RemovedRoot
    /\ match_source_group(call.before, call.mutation.node) # <<>>
    /\ match_target_group(call.before, call.mutation.node) # <<>>
    /\ call.mutation.node # 0

(* The four edge groups of the node at position k of the graph.             *)
GroupsOf(d, k) ==
    {d.graph[k].out_edges.on_match, d.graph[k].out_edges.on_refute,
     d.graph[k].in_edges.on_match, d.graph[k].in_edges.on_refute}

(* C23: after a successful RemoveNode(n), no edge of the diagram is         *)
(* incident to n: n is in no node's match/refute target group or source     *)
(* group, n's own match and refute arms are empty, and self-loops of n are  *)
(* gone.                                                                    *)
C23_RemovedNodeHasNoEdges ==
    AppliedOf({"RemoveNode"}) =>
        /\ \A k \in 1..Len(diagram.graph) :
              \A g \in GroupsOf(diagram, k) : ~Contains(g, call.mutation.node)
        /\ \A g \in GroupsOf(diagram, call.mutation.node + 1) : g = <<>>

(* The arm of the node at position k after n has been spliced out of d.     *)
SplicedArm(d, n, k, arm) ==
    IF d.graph[k].out_edges[arm] = <<n>> THEN d.graph[n + 1].out_edges[arm]
    ELSE d.graph[k].out_edges[arm]

(* C24: a successful RemoveNode(n) splices n out: every node whose match    *)
(* (refute) arm pointed to n afterwards has n's former match (refute)       *)
(* target as that arm, or no such arm if n had none; the arms of all other  *)
(* nodes are unchanged; node_to_restart is None.                            *)
C24_RemoveNodeSplices ==
    AppliedOf({"RemoveNode"}) =>
        /\ ret.result.node_to_restart = None
        /\ Len(diagram.graph) = Len(call.before.graph)
        /\ \A k \in 1..Len(call.before.graph) :
              \A arm \in {"on_match", "on_refute"} :
                 diagram.graph[k].out_edges[arm]
                    = SplicedArm(call.before, call.mutation.node, k, arm)

(* C24, witness: a node with a match source and a refute source and with    *)
(* only one arm of its own was removed: one source took over the node's     *)
(* target and the other lost its arm.                                       *)
C24_Witness ==
    /\ AppliedOf({"RemoveNode"})
    /\ match_source_group(call.before, call.mutation.node) # <<>>
    /\ refute_source_group(call.before, call.mutation.node) # <<>>
    /\ match_target_group(call.before, call.mutation.node) # <<>>
    /\ refute_target_group(call.before, call.mutation.node) = <<>>
    /\ \E k \in 1..Len(diagram.graph) :
          /\ call.before.graph[k].out_edges.on_refute = <<call.mutation.node>>
          /\ diagram.graph[k].out_edges.on_refute = <<>>

(* The node had a match source or a refute source in the diagram.  (A Root  *)
(* edge to the node makes RemoveNode return None: C22.)                     *)
HadSources(d, n) ==
    match_source_group(d, n) # <<>> \/ refute_source_group(d, n) # <<>>

(* C25: RemoveNode(n), when it applies, returns                             *)
(* phenotype_could_have_changed = true if and only if n had at least one    *)
(* source before the removal.                                               *)
C25_ChangedIffHadSources ==
    AppliedOf({"RemoveNode"}) =>
        (ret.result.phenotype_could_have_changed
            <=> HadSources(call.before, call.mutation.node))

(* The last mutation was an InsertPassthrough that returned Some, on the    *)
(* root edge or on an arm of a node of the diagram it was applied to.       *)
InsertedPassthrough ==
    /\ AppliedOf({"InsertPassthrough"})
    /\ call.mutation.edge.tag # "Root" =>
          call.mutation.edge.src < DiagramLen(call.before)

ArmOf(tag) == IF tag = "Match" THEN "on_match" ELSE "on_refute"

OtherArmOf(tag) == IF tag = "Match" THEN "on_refute" ELSE "on_match"

SetEdgeInRange ==
    /\ ret.op = "apply_mutation"
    /\ call.mutation.type = "SetEdge"
    /\ call.mutation.edge.tag # "Root" =>
          /\ call.mutation.edge.src < DiagramLen(call.before)
          /\ call.mutation.target < DiagramLen(call.before)

(* C27: SetEdge{Match(src), target} (resp. Refute(src)) with src and target *)
(* in the diagram makes target the match (resp. refute) arm of src, a       *)
(* self-loop included, leaves the other arm of src and the arms of all      *)
(* other nodes unchanged and returns phenotype_could_have_changed = true    *)
(* with node_to_restart = Some(src); SetEdge{Root, target} makes target the *)
(* root and returns node_to_restart = None.                                 *)
C27_SetEdgeFrame ==
    SetEdgeInRange =>
        LET b == call.before
            e == call.mutation.edge
            t == call.mutation.target
        IN /\ ~ret.aborted
           /\ ret.result.some
           /\ ret.result.phenotype_could_have_changed
           /\ Len(diagram.graph) = Len(b.graph)
           /\ IF e.tag = "Root"
              THEN /\ diagram.roots = <<t>>
                   /\ ret.result.node_to_restart = None
                   /\ \A k \in 1..Len(b.graph) :
                         diagram.graph[k].out_edges = b.graph[k].out_edges
              ELSE /\ diagram.roots = b.roots
                   /\ ret.result.node_to_restart = e.src
                   /\ \A k \in 1..Len(b.graph) :
                         diagram.graph[k].out_edges
                            = IF k = e.src + 1
                              THEN [b.graph[k].out_edges EXCEPT ![ArmOf(e.tag)] = <<t>>]
                              ELSE b.graph[k].out_edges

(* C27, witness: SetEdge made a self-loop on the refute arm of a node that  *)
(* had another refute target and a match arm.                               *)
C27_Witness ==
    /\ SetEdgeInRange
    /\ call.mutation.edge.tag = "Refute"
    /\ call.mutation.target = call.mutation.edge.src
    /\ call.before.graph[call.mutation.edge.src + 1].out_edges.on_refute
          \notin {<<>>, <<call.mutation.target>>}
    /\ call.before.graph[call.mutation.edge.src + 1].out_edges.on_match # <<>>
    /\ diagram.graph[call.mutation.edge.src + 1].out_edges.on_refute
          = <<call.mutation.edge.src>>

----------------------------------------------------------------------------
(* IndividualMutationState::insert_node (src/src/gen_mutation.rs): the last *)
(* deleted index is popped and the node there overwritten; with no deleted  *)
(* index the node is appended.                                              *)

(* A variant that reuses the index deleted first.                           *)
IndividualInsertNodeOldest(state, d, node) ==
    IF state.deleted_nodes # <<>>
    THEN LET deleted == Head(state.deleted_nodes)
         IN [state |-> [state EXCEPT !.deleted_nodes = Tail(@)],
             diagram |-> IF deleted < DiagramLen(d)
                         THEN [d EXCEPT !.graph[deleted + 1].node = node] ELSE d,
             index |-> deleted,
             aborted |-> deleted >= DiagramLen(d)]
    ELSE [state |-> state, diagram |-> insert_node(d, node),
          index |-> DiagramLen(d), aborted |-> FALSE]

IndividualInsertNode(state, d, node) ==
    IF state.deleted_nodes # <<>>
    THEN LET deleted == Last(state.deleted_nodes)
         IN [state |-> [state EXCEPT !.deleted_nodes = Front(@)],
             diagram |-> IF deleted < DiagramLen(d)
                         THEN [d EXCEPT !.graph[deleted + 1].node = node] ELSE d,
             index |-> deleted,
             aborted |-> deleted >= DiagramLen(d)]
    ELSE [state |-> state, diagram |-> insert_node(d, node),
          index |-> DiagramLen(d), aborted |-> FALSE]

MaxSlotSteps == 4

SlotNodes ==
    {OutputNode(1, <<Constant(1), Register(0)>>),
     MatchNode(1, <<MatchTerm(Free, None), MatchTerm(Free, None)>>)}

SlotSteps == IF ret.op \in {"remove_node", "insert_node"} THEN ret.count ELSE 0

InitSlots == InitMutate

(* RemoveNode(n) on a node that is not deleted yet (gen_node hands out no   *)
(* deleted index); a removal that applies records n in deleted_nodes.       *)
RemoveAndRecord(n) ==
    /\ pc = "idle"
    /\ SlotSteps < MaxSlotSteps
    /\ n < DiagramLen(diagram)
    /\ ~Contains(mutation_state.deleted_nodes, n)
    /\ LET r == apply_mutation(diagram, [type |-> "RemoveNode", node |-> n])
       IN /\ diagram' = r.diagram
          /\ mutation_state' =
                IF ~r.aborted /\ r.result.some
                THEN [mutation_state EXCEPT !.deleted_nodes = Append(@, n)]
                ELSE mutation_state
          /\ call' = [op |-> "remove_node", node |-> n, before |-> diagram,
                      state |-> mutation_state]
          /\ ret' = [op |-> "remove_node", result |-> r.result, aborted |-> r.aborted,
                     count |-> SlotSteps + 1]
          /\ pc' = IF r.aborted THEN "aborted" ELSE "idle"
    /\ UNCHANGED <<samples, orders, evaluations, fitness, mode, cur, start, eval,
                   pending, acc, nmut, history>>

InsertNode(node) ==
    /\ pc = "idle"
    /\ SlotSteps < MaxSlotSteps
    /\ LET r == IndividualInsertNode(mutation_state, diagram, node)
       IN /\ diagram' = r.diagram
          /\ mutation_state' = r.state
          /\ call' = [op |-> "insert_node", node |-> node, before |-> diagram,
                      state |-> mutation_state]
          /\ ret' = [op |-> "insert_node", index |-> r.index, aborted |-> r.aborted,
                     count |-> SlotSteps + 1]
          /\ pc' = IF r.aborted THEN "aborted" ELSE "idle"
    /\ UNCHANGED <<samples, orders, evaluations, fitness, mode, cur, start, eval,
                   pending, acc, nmut, history>>

NextSlots ==
    \/ \E n \in NodeIds : RemoveAndRecord(n)
    \/ \E node \in SlotNodes : InsertNode(node)

SpecSlots == InitSlots /\ [][NextSlots]_vars

(* C28: node-slot reuse.  When deleted_nodes is not empty, a node inserted  *)
(* through IndividualMutationState.insert_node gets the most recently       *)
(* deleted index, that index leaves deleted_nodes and diagram.len() is      *)
(* unchanged; only with an empty list is the node appended at index len().  *)
C28_NodeSlotReuse ==
    ret.op = "insert_node" =>
        /\ ~ret.aborted
        /\ diagram.graph[ret.index + 1].node = call.node
        /\ IF call.state.deleted_nodes # <<>>
           THEN /\ ret.index = Last(call.state.deleted_nodes)
                /\ mutation_state.deleted_nodes = Front(call.state.deleted_nodes)
                /\ DiagramLen(diagram) = DiagramLen(call.before)
           ELSE /\ ret.index = DiagramLen(call.before)
                /\ DiagramLen(diagram) = DiagramLen(call.before) + 1
                /\ mutation_state.deleted_nodes = <<>>

(* C28, witness: two nodes were deleted and a node was then inserted: it    *)
(* took the index deleted last and the index deleted first is still listed. *)
C28_Witness ==
    /\ ret.op = "insert_node"
    /\ Len(call.state.deleted_nodes) = 2
    /\ ret.index = call.state.deleted_nodes[2]
    /\ mutation_state.deleted_nodes = <<call.state.deleted_nodes[1]>>
    /\ diagram.graph[ret.index + 1].node # call.before.graph[ret.index + 1].node

----------------------------------------------------------------------------
(* GraphDiagram as a MultiDiagram (src/src/graph_diagram.rs): insert_edge   *)
(* and remove_edge on the edges Root(node), Match{source, target} and       *)
(* Refute{source, target}, next to set_root and the arm operations.         *)

DiagramEdges(nodes) ==
    {[tag |-> "Root", source |-> n, target |-> n] : n \in nodes}
    \cup {[tag |-> tag, source |-> a, target |-> b] :
            tag \in {"Match", "Refute"}, a \in nodes, b \in nodes}

(* The forward group and the reverse group an edge is stored in.            *)
ForwardGroup(d, e) == d.graph[e.source + 1].out_edges[ArmOf(e.tag)]

ReverseGroup(d, e) == d.graph[e.target + 1].in_edges[ArmOf(e.tag)]

(* edge_exists: asserts the indices and that both groups agree on the edge. *)
EdgeExistsAborts(d, e) ==
    IF e.tag = "Root" THEN e.target >= DiagramLen(d)
    ELSE \/ e.source >= DiagramLen(d)
         \/ e.target >= DiagramLen(d)
         \/ Contains(ReverseGroup(d, e), e.source) # Contains(ForwardGroup(d, e), e.target)

edge_exists(d, e) ==
    IF e.tag = "Root" THEN Contains(d.roots, e.target)
    ELSE Contains(ForwardGroup(d, e), e.target)

InsertEdgeAborts(d, e) == EdgeExistsAborts(d, e) \/ edge_exists(d, e)

insert_edge(d, e) ==
    IF e.tag = "Root" THEN [d EXCEPT !.roots = Append(@, e.target)]
    ELSE LET d1 == [d EXCEPT !.graph[e.source + 1].out_edges[ArmOf(e.tag)] =
                                Append(@, e.target)]
         IN [d1 EXCEPT !.graph[e.target + 1].in_edges[ArmOf(e.tag)] = Append(@, e.source)]

RemoveEdgeAborts(d, e) ==
    IF e.tag = "Root" THEN ~Contains(d.roots, e.target)
    ELSE \/ e.source >= DiagramLen(d)
         \/ ~Contains(ForwardGroup(d, e), e.target)
         \/ e.target >= DiagramLen(d)
         \/ ~Contains(ReverseGroup(d, e), e.source)

remove_edge(d, e) ==
    IF e.tag = "Root" THEN [d EXCEPT !.roots = remove_from_group(@, e.target)]
    ELSE LET d1 == [d EXCEPT !.graph[e.source + 1].out_edges[ArmOf(e.tag)] =
                                remove_from_group(@, e.target)]
         IN [d1 EXCEPT !.graph[e.target + 1].in_edges[ArmOf(e.tag)] =
                          remove_from_group(@, e.source)]

MaxGraphNodes == 3

MaxGraphSteps == 6

GraphNodes == 0..(MaxGraphNodes - 1)

GraphSteps == IF ret.op = "graph" THEN ret.count ELSE 0

InitGraph == CallInit([op |-> "new"])

(* One call on the diagram: it aborts, or leaves the diagram `after`.       *)
GraphCall(c, aborts, after) ==
    /\ pc = "call"
    /\ GraphSteps < MaxGraphSteps
    /\ call' = c
    /\ ret' = [op |-> "graph", aborted |-> aborts, count |-> GraphSteps + 1]
    /\ diagram' = IF aborts THEN diagram ELSE after
    /\ pc' = IF aborts THEN "aborted" ELSE "call"
    /\ UNCHANGED <<samples, orders, evaluations, fitness, mode, cur, start, eval,
                   pending, acc, nmut, history, mutation_state>>

GraphInsertNode ==
    /\ DiagramLen(diagram) < MaxGraphNodes
    /\ GraphCall([op |-> "insert_node"], FALSE,
                 insert_node(diagram, OutputNode(0, <<Constant(0)>>)))

GraphInsertEdge ==
    \E e \in DiagramEdges(GraphNodes) :
        GraphCall([op |-> "insert_edge", edge |-> e], InsertEdgeAborts(diagram, e),
                  insert_edge(diagram, e))

GraphRemoveEdge ==
    \E e \in DiagramEdges(GraphNodes) :
        GraphCall([op |-> "remove_edge", edge |-> e], RemoveEdgeAborts(diagram, e),
                  remove_edge(diagram, e))

GraphSetRoot ==
    \E n \in GraphNodes :
        GraphCall([op |-> "set_root", root |-> n], FALSE, set_root(diagram, n))

GraphSetArm ==
    \E arm \in {"on_match", "on_refute"}, src \in GraphNodes, target \in GraphNodes :
        GraphCall([op |-> "set_" \o arm, src |-> src, target |-> target],
                  SetArmAborts(diagram, arm, src, target),
                  SetArm(diagram, arm, src, target))

GraphClearArm ==
    \E arm \in {"on_match", "on_refute"}, src \in GraphNodes :
        GraphCall([op |-> "clear_" \o arm, src |-> src],
                  ClearArmAborts(diagram, arm, src), ClearArm(diagram, arm, src))

NextGraph ==
    \/ GraphInsertNode
    \/ GraphInsertEdge
    \/ GraphRemoveEdge
    \/ GraphSetRoot
    \/ GraphSetArm
    \/ GraphClearArm

SpecGraph == InitGraph /\ [][NextGraph]_vars

NoDuplicates(group) ==
    \A i \in 1..Len(group) : \A j \in 1..Len(group) : group[i] = group[j] => i = j

----------------------------------------------------------------------------
(* Sequences of inserts into one database, from Database::new.  ret holds   *)
(* the database and, beside it, the facts whose insert returned, in order.  *)

MaxInserts == 3

InsertWeights == {-1, 0, 2}

InsertRows == {<<v>> : v \in Values} \cup {<<v, w>> : v \in Values, w \in Values}

InsertCount == IF ret.op = "database" THEN ret.count ELSE 0

InsertedDb == IF ret.op = "database" THEN ret.db ELSE DatabaseNew

Inserted == IF ret.op = "database" THEN ret.inserted ELSE <<>>

InitDatabase == CallInit([op |-> "new"])

(* One insert: Table::push's assert aborts it, or the row is stored.        *)
InsertCall(c, predicate, values, after) ==
    LET aborts == InsertAborts(InsertedDb, predicate, values)
    IN /\ pc = "call"
       /\ InsertCount < MaxInserts
       /\ call' = c
       /\ ret' = [op |-> "database",
                  aborted |-> aborts,
                  count |-> InsertCount + 1,
                  db |-> IF aborts THEN InsertedDb ELSE after,
                  inserted |-> IF aborts THEN Inserted
                               ELSE Append(Inserted, <<predicate, values>>)]
       /\ pc' = IF aborts THEN "aborted" ELSE "call"
       /\ UNCHANGED <<diagram, samples, orders, evaluations, fitness, mode, cur, start,
                      eval, pending, acc, nmut, history, mutation_state>>

InsertFact ==
    \E p \in Predicates : \E row \in InsertRows :
        InsertCall([op |-> "insert_fact", predicate |-> p, values |-> row],
                   p, row, insert_fact(InsertedDb, p, row))

InsertFactWithWeight ==
    \E p \in Predicates : \E row \in InsertRows : \E w \in InsertWeights :
        InsertCall([op |-> "insert_fact_with_weight", predicate |-> p, values |-> row,
                    weight |-> w],
                   p, row, insert_fact_with_weight(InsertedDb, p, row, w))

NextDatabase ==
    \/ InsertFact
    \/ InsertFactWithWeight

SpecDatabase == InitDatabase /\ [][NextDatabase]_vars

(* The values of the entries of `facts` whose predicate is p, in order.     *)
RECURSIVE RowsOf(_, _)
RowsOf(facts, p) ==
    IF facts = <<>> THEN <<>>
    ELSE (IF facts[1][1] = p THEN <<facts[1][2]>> ELSE <<>>) \o RowsOf(Tail(facts), p)

(* What all_facts yields, without the weights.                              *)
Yielded(db) ==
    [i \in 1..Len(all_facts(db)) |-> <<all_facts(db)[i].predicate, all_facts(db)[i].values>>]

Occurrences(facts, f) == Cardinality({i \in 1..Len(facts) : facts[i] = f})

(* C30: after any sequence of inserts a fact inserted k times is yielded k  *)
(* times by all_facts, all_facts yields one fact per inserted row whatever  *)
(* the rows' weights, each predicate's rows in insertion order, and         *)
(* contains(f) holds exactly of the facts that were inserted.               *)
C30_InsertNeverDedupes ==
    ret.op = "database" =>
        LET db == ret.db
            yielded == Yielded(db)
        IN /\ Len(yielded) = Len(ret.inserted)
           /\ \A p \in Predicates :
                 /\ RowsOf(yielded, p) = RowsOf(ret.inserted, p)
                 /\ facts_for_predicate(db, p) = RowsOf(ret.inserted, p)
                 /\ \A row \in InsertRows :
                       /\ Occurrences(yielded, <<p, row>>)
                             = Occurrences(ret.inserted, <<p, row>>)
                       /\ contains(db, p, row) <=> Contains(ret.inserted, <<p, row>>)
                       /\ contains(db, p, row)
                             <=> Contains(facts_for_predicate(db, p), row)

(* The same fact inserted twice, once with a weight that is not positive,   *)
(* and a fact of the other predicate between or beside them.                *)
C30_Witness ==
    /\ ret.op = "database"
    /\ ~ret.aborted
    /\ \E i \in 1..Len(ret.inserted) : \E j \in 1..Len(ret.inserted) :
          i < j /\ ret.inserted[i] = ret.inserted[j]
    /\ \E i \in 1..Len(all_facts(ret.db)) : all_facts(ret.db)[i].weight <= 0
    /\ DOMAIN ret.db = Predicates

----------------------------------------------------------------------------
(* Database::simple_query and SimpleQueryIter over the rows of one table.   *)
(* insert_fact appends the index of the stored row to the Index of every    *)
(* (predicate, column, value) of the row, so the row_indices of an Index    *)
(* are the rows that hold the value in the column, ascending.  Rows are     *)
(* counted from 0 as in the code.                                           *)

RECURSIVE IndexRowIndices(_, _, _, _)
IndexRowIndices(rows, column, value, from) ==
    IF from >= Len(rows) THEN <<>>
    ELSE (IF column < Len(rows[from + 1]) /\ rows[from + 1][column + 1] = value
          THEN <<from>> ELSE <<>>)
         \o IndexRowIndices(rows, column, value, from + 1)

(* Index::iter and FreeColumnIter::new.                                     *)
IndexIterNew(row_indices) == [kind |-> "Index", row_indices |-> row_indices, next |-> 1]

FreeColumnIterNew(table) == [kind |-> "Free", next |-> 0, num_rows |-> Len(table.rows)]

(* simple_query fails on `expect("no table for predicate")` or on           *)
(* `expect("Should have an index for everything")`.                         *)
SimpleQueryAborts(db, predicate, terms) ==
    \/ predicate \notin DOMAIN db
    \/ \E i \in 1..Len(terms) :
          /\ terms[i].tag = "Constant"
          /\ IndexRowIndices(db[predicate].rows, i - 1, terms[i].arg, 0) = <<>>

simple_query(db, predicate, terms) ==
    [i \in 1..Len(terms) |->
        IF terms[i].tag = "Constant"
        THEN IndexIterNew(IndexRowIndices(db[predicate].rows, i - 1, terms[i].arg, 0))
        ELSE FreeColumnIterNew(db[predicate])]

(* SimpleQueryIndexIter::peek: None, or the next row of the iterator.       *)
IterPeek(iter) ==
    IF iter.kind = "Index"
    THEN (IF iter.next > Len(iter.row_indices) THEN None ELSE iter.row_indices[iter.next])
    ELSE (IF iter.next = iter.num_rows THEN None ELSE iter.next)

(* IndexIter::jump_to_row never returns when the next row of the index is   *)
(* below `row`: the loop peeks the same row again without advancing.        *)
IterJumpHangs(iter, row) ==
    iter.kind = "Index" /\ IterPeek(iter) # None /\ IterPeek(iter) < row

(* SimpleQueryIndexIter::jump_to_row, when it returns.                      *)
IterJump(iter, row) ==
    IF iter.kind = "Index"
    THEN IF IterPeek(iter) = row
         THEN [iter |-> [iter EXCEPT !.next = @ + 1], found |-> TRUE]
         ELSE [iter |-> iter, found |-> FALSE]
    ELSE IF row < iter.num_rows
         THEN [iter |-> [iter EXCEPT !.next = row + 1], found |-> TRUE]
         ELSE [iter |-> iter, found |-> FALSE]

(* SimpleQueryIter::next: [iters, row, hangs], row None or the yielded row. *)
(* One turn of its loop: a peek of None returns None; else every iterator   *)
(* is jumped to the largest peeked row (all of them, `&=` does not cut      *)
(* short), and the row is yielded when all found it.                        *)
RECURSIVE SimpleQueryNext(_)
SimpleQueryNext(iters) ==
    LET peeks == {IterPeek(iters[i]) : i \in 1..Len(iters)}
        max_row == SetMax({0} \cup (peeks \ {None}))
        jumps == [i \in 1..Len(iters) |-> IterJump(iters[i], max_row)]
        jumped == [i \in 1..Len(iters) |-> jumps[i].iter]
    IN IF None \in peeks
       THEN [iters |-> iters, row |-> None, hangs |-> FALSE]
       ELSE IF \E i \in 1..Len(iters) : IterJumpHangs(iters[i], max_row)
       THEN [iters |-> iters, row |-> None, hangs |-> TRUE]
       ELSE IF \A i \in 1..Len(iters) : jumps[i].found
       THEN [iters |-> jumped, row |-> max_row, hangs |-> FALSE]
       ELSE SimpleQueryNext(jumped)

(* A query over a database built by inserts: simple_query, then calls of    *)
(* next on the iterator it returned.  ret holds the database, the query,    *)
(* the iterators, the rows yielded so far and the number of calls that      *)
(* returned None.                                                           *)

MaxNextCalls == 5

QueryTermMenu == {Free} \cup {Constant(v) : v \in Values}

QueryTerms == {<<t>> : t \in QueryTermMenu} \cup {<<t, u>> : t \in QueryTermMenu, u \in QueryTermMenu}

SimpleQuery(predicate, terms) ==
    LET aborts == SimpleQueryAborts(InsertedDb, predicate, terms)
    IN /\ pc = "call"
       /\ call' = [op |-> "simple_query", predicate |-> predicate, terms |-> terms]
       /\ ret' = [op |-> "query",
                  db |-> InsertedDb,
                  predicate |-> predicate,
                  terms |-> terms,
                  aborted |-> aborts,
                  iters |-> IF aborts THEN <<>> ELSE simple_query(InsertedDb, predicate, terms),
                  yielded |-> <<>>,
                  nones |-> 0,
                  count |-> 0]
       /\ pc' = IF aborts THEN "aborted" ELSE "query"
       /\ UNCHANGED <<diagram, samples, orders, evaluations, fitness, mode, cur, start,
                      eval, pending, acc, nmut, history, mutation_state>>

StartQuery == \E p \in Predicates : \E terms \in QueryTerms : SimpleQuery(p, terms)

(* One call of next: it yields a row, returns None, or never returns.       *)
QueryNext ==
    /\ pc = "query"
    /\ ret.count < MaxNextCalls
    /\ LET r == SimpleQueryNext(ret.iters)
       IN /\ call' = [op |-> "next"]
          /\ ret' = [ret EXCEPT !.iters = r.iters,
                                !.yielded = IF r.row = None THEN @ ELSE Append(@, r.row),
                                !.nones = IF r.row = None /\ ~r.hangs THEN @ + 1 ELSE @,
                                !.count = @ + 1]
          /\ pc' = IF r.hangs THEN "hung" ELSE "query"
    /\ UNCHANGED <<diagram, samples, orders, evaluations, fitness, mode, cur, start,
                   eval, pending, acc, nmut, history, mutation_state>>

NextQuery ==
    \/ InsertFact
    \/ StartQuery
    \/ QueryNext

SpecQuery == InitDatabase /\ [][NextQuery]_vars

(* The rows that equal every Constant term at its position, ascending.      *)
RECURSIVE MatchingRows(_, _, _)
MatchingRows(rows, terms, from) ==
    IF from >= Len(rows) THEN <<>>
    ELSE (IF \A j \in 1..Len(terms) :
                terms[j].tag = "Constant" => rows[from + 1][j] = terms[j].arg
          THEN <<from>> ELSE <<>>)
         \o MatchingRows(rows, terms, from + 1)

IsPrefix(s, t) == Len(s) <= Len(t) /\ SubSeq(t, 1, Len(s)) = s

(* A query with one term per column of its predicate's table.               *)
QueryOfTable ==
    /\ ret.op = "query"
    /\ ~ret.aborted
    /\ Len(ret.terms) = ret.db[ret.predicate].num_columns

(* C31: every call of next on the iterator of a query whose Constant values *)
(* occur in their columns returns; the rows yielded are the rows that equal *)
(* every Constant term at its position, in increasing insertion order, all  *)
(* of them once None was returned, and None is returned from then on.       *)
C31_SimpleQueryYieldsMatches ==
    QueryOfTable =>
        LET expected == MatchingRows(ret.db[ret.predicate].rows, ret.terms, 0)
        IN /\ pc # "hung"
           /\ IsPrefix(ret.yielded, expected)
           /\ ret.nones > 0 => ret.yielded = expected
           /\ ret.count > Len(expected) => ret.nones = ret.count - Len(expected)

----------------------------------------------------------------------------
(* Evaluation and one mutation of diagrams with two Output nodes, of one or *)
(* two terms each, one on each arm of a Match node that matches some of its *)
(* input and refutes the rest.                                              *)

ArityOutputs ==
    {OutputNode(p, terms) :
        p \in Predicates,
        terms \in {<<Register(0)>>, <<Register(0), Register(1)>>,
                   <<Register(0), Register(NumRegisters)>>}}

ArityDiagram(a, b) ==
    Diagram(NumRegisters,
            <<MatchNode(0, <<MatchTerm(Free, 0), MatchTerm(Free, 1)>>),
              MatchNode(0, <<MatchTerm(Register(1), None), MatchTerm(Free, None)>>),
              a, b>>,
            0, <<SetUpdate("on_match", 0, 1), SetUpdate("on_match", 1, 2),
                 SetUpdate("on_refute", 1, 3)>>)

(* The two Output nodes start on different predicates.                      *)
ArityScenarios ==
    {Scenario("client", ArityDiagram(a, b), <<Sample(DbPairs, DbEmpty)>>, AnyOrder) :
        a \in {o \in ArityOutputs : o.predicate = 1},
        b \in {o \in ArityOutputs : o.predicate = 0}}

ArityMutations ==
    {[type |-> "SetPredicate", node |-> n, predicate |-> p] : n \in {2, 3}, p \in Predicates}
    \cup {[type |-> "SetOutputRegister", node |-> n, term |-> t, register |-> r] :
            n \in {2, 3}, t \in {0, 1}, r \in AnyRegister}

InitArity == \E sc \in ArityScenarios : InitOf(sc)

NextArity ==
    \/ Evaluate
    \/ RunPendingStep
    \/ FinishSample
    \/ \E m \in ArityMutations : MutateAndRescore(m)

SpecArity == InitArity /\ [][NextArity]_vars

(* Every row of every table of db is as wide as the table.                  *)
SameWidths(db) ==
    \A p \in DOMAIN db :
        \A i \in 1..Len(db[p].rows) : Len(db[p].rows[i]) = db[p].num_columns

EvaluationWidths(e) ==
    /\ SameWidths(e.total_db)
    /\ \A n \in 1..Len(e.states) :
          e.states[n].output.kind = "Output" => SameWidths(e.states[n].output.db)

(* The evaluation is about to store a row in a table of another width: in   *)
(* build_total_db, or merging the output of an Output node into the output  *)
(* the node already has.                                                    *)
ArityAttempt ==
    /\ pc = "run"
    /\ \/ pending = <<>> /\ BuildTotalDbAborts(eval)
       \/ /\ pending # <<>>
          /\ Last(pending).node < Len(eval.states)
          /\ LET node == get_node(diagram, Last(pending).node)
                 state == eval.states[Last(pending).node + 1]
             IN /\ node.kind = "Output"
                /\ state.output.kind = "Output"
                /\ MergeOutputAborts(state,
                       propagate(node, samples[cur].input, Last(pending).regs,
                                 eval.max_depth, "asc"))

(* C32: in every database the evaluator builds the rows of one predicate    *)
(* have one width, and no evaluation of a diagram, before or after a        *)
(* mutation, attempts to store a row under a predicate whose table has      *)
(* another width.                                                           *)
C32_ArityConsistency ==
    /\ EvaluationWidths(eval)
    /\ \A i \in 1..Len(evaluations) : EvaluationWidths(evaluations[i])
    /\ ~ArityAttempt

----------------------------------------------------------------------------
(* FixGraph: nodes with a fixed number of edge slots each, the slots of all *)
(* nodes in one vector.  Only the number of nodes is kept of the nodes.     *)

(* usize::MAX, within the integers of the model.                            *)
INVALID_NODE_INDEX == 2147483647

MaxEdgesPerNode == 2
MaxFixNodes == 3
MaxFixSteps == 5

FixGraphWithCapacity(edges_per_node) ==
    [edges_per_node |-> edges_per_node, nodes |-> 0, edges |-> <<>>]

FixGraphPush(g) ==
    [g EXCEPT !.nodes = @ + 1,
              !.edges = @ \o [i \in 1..g.edges_per_node |-> INVALID_NODE_INDEX]]

(* The position of the slot in `edges`, counted from 0.                     *)
edge_num_to_index(g, node, edge) == (node \div g.edges_per_node) + edge

(* `panic!("target is outside of this FixGraph")`, or the index is past the *)
(* end of `edges`.                                                          *)
FixSetEdgeAborts(g, source, edge, target) ==
    \/ target >= g.nodes
    \/ edge_num_to_index(g, source, edge) >= Len(g.edges)

set_edge(g, source, edge, target) ==
    [g EXCEPT !.edges[edge_num_to_index(g, source, edge) + 1] = target]

FixGetEdgeAborts(g, source, edge) == edge_num_to_index(g, source, edge) >= Len(g.edges)

get_edge(g, source, edge) ==
    LET node == g.edges[edge_num_to_index(g, source, edge) + 1]
    IN IF node = INVALID_NODE_INDEX THEN None ELSE node

(* Calls on one FixGraph.  ret holds the graph and, beside it, the slots    *)
(* that a set_edge was called for.                                          *)
FixGraphOf == IF ret.op = "fixgraph" THEN ret.graph ELSE call.graph

FixSlotsSet == IF ret.op = "fixgraph" THEN ret.slots ELSE {}

FixSteps == IF ret.op = "fixgraph" THEN ret.count ELSE 0

InitFixGraph ==
    \E k \in 1..MaxEdgesPerNode :
        CallInit([op |-> "with_capacity", graph |-> FixGraphWithCapacity(k)])

FixCall(c, aborts, after, slots) ==
    /\ pc = "call"
    /\ FixSteps < MaxFixSteps
    /\ call' = c
    /\ ret' = [op |-> "fixgraph", aborted |-> aborts, count |-> FixSteps + 1,
               graph |-> IF aborts THEN FixGraphOf ELSE after,
               slots |-> IF aborts THEN FixSlotsSet ELSE slots]
    /\ pc' = IF aborts THEN "aborted" ELSE "call"
    /\ UNCHANGED <<diagram, samples, orders, evaluations, fitness, mode, cur, start,
                   eval, pending, acc, nmut, history, mutation_state>>

FixPush ==
    /\ FixGraphOf.nodes < MaxFixNodes
    /\ FixCall([op |-> "push", before |-> FixGraphOf], FALSE, FixGraphPush(FixGraphOf),
               FixSlotsSet)

FixSetEdge ==
    \E s \in 0..(MaxFixNodes - 1) : \E e \in 0..(FixGraphOf.edges_per_node - 1) :
        \E t \in 0..(MaxFixNodes - 1) :
            /\ s < FixGraphOf.nodes
            /\ FixCall([op |-> "set_edge", source |-> s, edge |-> e, target |-> t,
                        before |-> FixGraphOf],
                       FixSetEdgeAborts(FixGraphOf, s, e, t),
                       set_edge(FixGraphOf, s, e, t),
                       FixSlotsSet \cup {<<s, e>>})

NextFixGraph ==
    \/ FixPush
    \/ FixSetEdge

SpecFixGraph == InitFixGraph /\ [][NextFixGraph]_vars

FixSlots(g) == (0..(g.nodes - 1)) \X (0..(g.edges_per_node - 1))

(* C33: after set_edge(s, e, t) get_edge(s, e) is t and every other slot    *)
(* reads what it read before the call; a slot no set_edge was called for    *)
(* reads None.                                                              *)
C33_SetEdgeGetEdge ==
    (ret.op = "fixgraph" /\ ~ret.aborted) =>
        /\ \A slot \in FixSlots(ret.graph) \ ret.slots :
              /\ ~FixGetEdgeAborts(ret.graph, slot[1], slot[2])
              /\ get_edge(ret.graph, slot[1], slot[2]) = None
        /\ call.op = "set_edge" =>
              /\ get_edge(ret.graph, call.source, call.edge) = call.target
              /\ \A slot \in FixSlots(ret.graph) \ {<<call.source, call.edge>>} :
                    get_edge(ret.graph, slot[1], slot[2])
                       = get_edge(call.before, slot[1], slot[2])

----------------------------------------------------------------------------
(* rerun_from against run_multi, node by node.                              *)

(* The register files of a node's input, matches and refutes, and the facts *)
(* of its database.                                                         *)
NodeSets(state) ==
    [input |-> Keys(state.input),
     kind |-> state.output.kind,
     matches |-> IF state.output.kind = "Match" THEN Keys(state.output.matches) ELSE {},
     refutes |-> IF state.output.kind = "Match" THEN Keys(state.output.refutes) ELSE {},
     facts |-> IF state.output.kind = "Output" THEN FactSet(state.output.db) ELSE {}]

SameSets(a, b) ==
    /\ Len(a.states) = Len(b.states)
    /\ \A n \in 1..Len(a.states) : NodeSets(a.states[n]) = NodeSets(b.states[n])
    /\ FactSet(a.total_db) = FactSet(b.total_db)

(* The nodes reached from the nodes of S along one or more Match or Refute  *)
(* edges.                                                                   *)
TargetsOf(d, S) ==
    UNION {SeqToSet(match_target_group(d, n)) \cup SeqToSet(refute_target_group(d, n)) :
              n \in {m \in S : m < DiagramLen(d)}}

RECURSIVE ReachedFrom(_, _, _)
ReachedFrom(d, reached, fuel) ==
    LET more == reached \cup TargetsOf(d, reached)
    IN IF fuel = 0 \/ more = reached THEN reached ELSE ReachedFrom(d, more, fuel - 1)

(* The last mutation named a node to restart from that is reached from      *)
(* itself.                                                                  *)
StartOnCycle ==
    /\ history.result.some
    /\ history.result.node_to_restart # None
    /\ history.result.node_to_restart
          \in ReachedFrom(diagram, TargetsOf(diagram, {history.result.node_to_restart}),
                          DiagramLen(diagram))

(* C34: when a start node is reachable from a start node along one or more  *)
(* Match or Refute edges, the Evaluations rerun_from returns have, for      *)
(* every node, the register files and, for total_db, the facts of a         *)
(* from-scratch run_multi on the current diagram, whatever Evaluation       *)
(* rerun_from was called on.                                                *)
C34_CyclicFallbackIsFullRun ==
    (Rescored /\ StartOnCycle) =>
        \A i \in 1..Len(samples) :
            /\ ~FromScratch(i).aborted
            /\ SameSets(evaluations[i], FromScratch(i).eval)

(* A rescoring that fell back from Evaluations run_multi had computed, and  *)
(* whose Evaluations differ from them and hold facts.                       *)
C34_Witness ==
    /\ Rescored
    /\ StartOnCycle
    /\ history.prior_cache = "run_multi"
    /\ \E i \in 1..Len(samples) :
          /\ FactSet(evaluations[i].total_db) # {}
          /\ ~SameSets(evaluations[i], run_multi(history.before, samples[i].input).eval)

----------------------------------------------------------------------------
(* rerun_from as one call: on the Evaluation run_multi computed for a       *)
(* diagram, after one mutation of the diagram, with a start list of up to   *)
(* two nodes.                                                               *)

RerunStarts ==
    {<<>>} \cup {<<n>> : n \in NodeIds}
    \cup {<<p[1], p[2]>> : p \in {q \in NodeIds \X NodeIds : q[1] < q[2]}}

RerunMutations ==
    {m \in Mutations :
        m.type \in {"SetEdge", "InsertPassthrough", "RemoveNode", "SetPredicate",
                    "SetConstraintConstant"}}

InitRerun ==
    \E d \in MutateDiagrams :
        InitOf(Scenario("client", d, <<Sample(DbPairs, ExpectedCopy)>>, AnyOrder))

(* run_multi on the diagram begins: the roots are seeded.                   *)
RerunEvaluate ==
    /\ pc = "idle"
    /\ mode = "none"
    /\ pc' = "run"
    /\ mode' = "run_multi"
    /\ cur' = 1
    /\ eval' = RunMultiStart(diagram).eval
    /\ pending' = RunMultiStart(diagram).pending
    /\ UNCHANGED <<diagram, samples, orders, evaluations, fitness, start, acc, nmut,
                   history, call, ret, mutation_state>>

(* run_multi ends with build_total_db; the Evaluation is kept in `eval`.    *)
RerunEvaluated ==
    /\ pc = "run"
    /\ mode = "run_multi"
    /\ pending = <<>>
    /\ pc' = IF BuildTotalDbAborts(eval) THEN "aborted" ELSE "idle"
    /\ mode' = "evaluated"
    /\ eval' = IF BuildTotalDbAborts(eval) THEN eval ELSE build_total_db(eval)
    /\ UNCHANGED <<diagram, samples, orders, evaluations, fitness, cur, start, pending,
                   acc, nmut, history, call, ret, mutation_state>>

MutateOnce ==
    /\ mode = "evaluated"
    /\ ret.op = "none"
    /\ \E m \in RerunMutations : ApplyMutation(m)

(* rerun_from on the Evaluation run_multi computed for the diagram, or for   *)
(* the diagram before the mutation, up to its call of run_pending.          *)
(* rerun_from works on `self.clone()`; `self` is handed back as it is after *)
(* the call.                                                                *)
RerunFrom ==
    /\ pc = "idle"
    /\ mode = "evaluated"
    /\ ret.op \in {"none", "apply_mutation"}
    /\ \E starts \in RerunStarts : \E order \in orders :
          LET aborts == RerunFromAborts(diagram, starts)
              st == RerunFromStart(eval, diagram, starts, order)
          IN /\ call' = [op |-> "rerun_from", self |-> eval, start |-> starts,
                         database |-> samples[cur].input,
                         before |-> IF ret.op = "apply_mutation" THEN call.before
                                    ELSE diagram]
             /\ ret' = [op |-> "run_pending", aborted |-> aborts,
                        fallback |-> ~aborts /\ RerunFallsBack(diagram, starts),
                        self |-> eval, eval |-> eval]
             /\ eval' = IF aborts THEN eval ELSE st.eval
             /\ pending' = IF aborts THEN pending ELSE st.pending
             /\ pc' = IF aborts THEN "aborted" ELSE "run"
             /\ mode' = "rerun_from"
    /\ UNCHANGED <<diagram, samples, orders, evaluations, fitness, cur, start, acc,
                   nmut, history, mutation_state>>

(* rerun_from ends with build_total_db and returns the Evaluation.          *)
RerunReturn ==
    /\ pc = "run"
    /\ mode = "rerun_from"
    /\ pending = <<>>
    /\ pc' = IF BuildTotalDbAborts(eval) THEN "aborted" ELSE "done"
    /\ ret' = [ret EXCEPT !.op = "rerun_from",
                          !.aborted = BuildTotalDbAborts(eval),
                          !.eval = IF BuildTotalDbAborts(eval) THEN eval
                                   ELSE build_total_db(eval)]
    /\ UNCHANGED <<diagram, samples, orders, evaluations, fitness, mode, cur, start,
                   eval, pending, acc, nmut, history, call, mutation_state>>

NextRerun ==
    \/ RerunEvaluate
    \/ RunPendingStep
    \/ RerunEvaluated
    \/ MutateOnce
    \/ RerunFrom
    \/ RerunReturn

SpecRerun == InitRerun /\ [][NextRerun]_vars

(* The start nodes and the nodes reached from them.                         *)
ForwardClosure(d, starts) == ReachedFrom(d, SeqToSet(starts), DiagramLen(d))

Returned == ret.op = "rerun_from" /\ ~ret.aborted /\ ~ret.fallback

(* C35: a rerun_from that does not fall back leaves the Evaluation it was   *)
(* called on as it was, and in the Evaluation it returns every node outside *)
(* the forward closure of the start nodes has the state, input and output,  *)
(* it had in the prior Evaluation.                                          *)
C35_RerunFrame ==
    Returned =>
        /\ ret.self = call.self
        /\ \A n \in 0..(DiagramLen(diagram) - 1) :
              n \notin ForwardClosure(diagram, call.start) =>
                 ret.eval.states[n + 1]
                    = IF n < Len(call.self.states) THEN call.self.states[n + 1]
                      ELSE NodeStateNew

(* A rerun that changed the state of a node of the closure and left a node  *)
(* with a non-empty state outside it.                                       *)
C35_Witness ==
    /\ Returned
    /\ call.start # <<>>
    /\ ret.eval.states # grow(call.self.states, DiagramLen(diagram))
    /\ \E n \in 0..(DiagramLen(diagram) - 1) :
          /\ n \notin ForwardClosure(diagram, call.start)
          /\ ret.eval.states[n + 1] # NodeStateNew

(* Every register file a Match node holds for an arm is in the input of the *)
(* arm's targets, and every root's input holds the all-None register file.  *)
EdgeClosed(d, e) ==
    /\ \A s \in 0..(Len(e.states) - 1) :
          e.states[s + 1].output.kind = "Match" =>
             /\ \A i \in 1..Len(match_target_group(d, s)) :
                   Keys(e.states[s + 1].output.matches)
                      \subseteq Keys(e.states[match_target_group(d, s)[i] + 1].input)
             /\ \A i \in 1..Len(refute_target_group(d, s)) :
                   Keys(e.states[s + 1].output.refutes)
                      \subseteq Keys(e.states[refute_target_group(d, s)[i] + 1].input)
    /\ \A i \in 1..Len(ValidRoots(d)) :
          RegisterFileNew(d.num_registers) \in Keys(e.states[ValidRoots(d)[i] + 1].input)

(* rerun_from returned, called on the Evaluation of the diagram it is given. *)
RerunOfSameDiagram ==
    /\ ret.op = "rerun_from"
    /\ ~ret.aborted
    /\ call.before = diagram

(* C36: the Evaluation run_multi returns, and the Evaluation every          *)
(* rerun_from on it for the same diagram returns, are closed under the      *)
(* edges: matches and refutes of a source are in the input of the arm's     *)
(* targets, and the roots hold the all-None register file.                  *)
C36_EdgeClosure ==
    RerunOfSameDiagram =>
        /\ EdgeClosed(diagram, call.self)
        /\ EdgeClosed(diagram, ret.eval)

----------------------------------------------------------------------------
(* Every root and every node stored in an edge group is a node of the       *)
(* diagram.                                                                 *)
EdgesValid(d) ==
    /\ \A i \in 1..Len(d.roots) : d.roots[i] < DiagramLen(d)
    /\ \A n \in 0..(DiagramLen(d) - 1) :
          \A group \in {match_target_group(d, n), refute_target_group(d, n),
                        match_source_group(d, n), refute_source_group(d, n)} :
             \A i \in 1..Len(group) : group[i] < DiagramLen(d)

(* C37: after any sequence of apply_mutation calls on a diagram whose edges *)
(* are valid, every root and every match or refute target or source stored  *)
(* in the diagram is an index below diagram.len().                          *)
C37_EdgesStayValid ==
    pc # "aborted" => EdgesValid(diagram)

----------------------------------------------------------------------------
(* Two calls of mutate_and_rescore in a row, on a blank individual and on a *)
(* client's diagram.                                                        *)

MaxRescores == 2

RescoreScenarios ==
    {Scenario("individual", BlankDiagram(NumRegisters, n, 2),
              <<Sample(DbOne, ExpectedCopy)>>, AnyOrder) : n \in 1..2}
    \cup {Scenario("client", DiagramCopy, <<Sample(DbPairs, ExpectedCopy)>>, AnyOrder)}

RescoreMutations ==
    {[type |-> "SetOutputConstant", node |-> n, term |-> 0, value |-> v] :
        n \in {0, 1}, v \in Values}
    \cup {[type |-> "SetPredicate", node |-> n, predicate |-> q] :
            n \in {0, 1}, q \in Predicates}
    \cup {[type |-> "RemoveNode", node |-> n] : n \in {0, 1}}
    \cup {[type |-> "SetEdge", edge |-> e, target |-> n] :
            e \in {EdgeRoot, EdgeMatch(0)}, n \in {0, 1}}
    \cup {[type |-> "SetConstraintFree", node |-> 0, term |-> 0]}

InitRescore == \E sc \in RescoreScenarios : InitOf(sc)

NextRescore ==
    \/ Evaluate
    \/ RunPendingStep
    \/ FinishSample
    \/ \E m \in RescoreMutations : MutateAndRescoreUpTo(m, MaxRescores)

SpecRescore == InitRescore /\ [][NextRescore]_vars

(* C38: a mutate_and_rescore whose apply_mutation returns None, or Some     *)
(* with phenotype_could_have_changed = false, leaves the fitness and every  *)
(* cached Evaluation as they were and returns false; one that rescores      *)
(* returns true exactly when the fitness differs from the fitness before    *)
(* the call.                                                                *)
C38_MutateAndRescoreFrame ==
    /\ [](Rescored =>
             history.returned = IF fitness # history.prior_fitness THEN "true" ELSE "false")
    /\ [][(/\ nmut' = nmut + 1
           /\ pc' # "aborted"
           /\ ~(history'.result.some /\ history'.result.phenotype_could_have_changed))
          => (/\ fitness' = fitness
              /\ evaluations' = evaluations
              /\ pc' = "idle"
              /\ history'.returned = "false")]_vars

(* A call that did not rescore, on an individual that an earlier call had   *)
(* scored.                                                                  *)
C38_Witness ==
    /\ pc = "idle"
    /\ nmut = MaxRescores
    /\ history.returned = "false"
    /\ ~RescoreDue(history.result)
    /\ fitness # FITNESS_UNSCORED
    /\ \E i \in 1..Len(evaluations) : evaluations[i] # EvaluationNew

----------------------------------------------------------------------------
(* PatchDiagram: an overlay on a borrowed GraphDiagram. next_node and five  *)
(* TinyMaps (vectors of key/value pairs): node_map, and per arm the patched *)
(* targets and the patched source lists.                                    *)

TinyMapNew == <<>>

TinyMapHas(m, key) == \E i \in 1..Len(m) : m[i].key = key

TinyMapGet(m, key) == m[CHOOSE i \in 1..Len(m) : m[i].key = key].value

(* TinyMap::insert: the value of an existing key is replaced in place.      *)
TinyMapInsert(m, key, value) ==
    IF TinyMapHas(m, key)
    THEN [i \in 1..Len(m) |-> IF m[i].key = key THEN [key |-> key, value |-> value] ELSE m[i]]
    ELSE Append(m, [key |-> key, value |-> value])

PatchDiagramNew(graph_diagram) ==
    [next_node |-> DiagramLen(graph_diagram),
     node_map |-> TinyMapNew,
     match_targets |-> TinyMapNew, refute_targets |-> TinyMapNew,
     match_sources |-> TinyMapNew, refute_sources |-> TinyMapNew]

PatchTargets(arm) == IF arm = "on_match" THEN "match_targets" ELSE "refute_targets"

PatchSources(arm) == IF arm = "on_match" THEN "match_sources" ELSE "refute_sources"

(* The closures handed to set_target and set_sources: the borrowed          *)
(* diagram's get_on_* (which asserts src < len) and get_*_sources.          *)
DiagramOldTarget(g, arm, src) ==
    IF arm = "on_match" THEN get_on_match(g, src) ELSE get_on_refute(g, src)

DiagramSources(g, arm, target) == g.graph[target + 1].in_edges[arm]

(* Vec::remove of the first occurrence of src: the order is kept.           *)
VecRemoveFirst(sources, src) ==
    LET index == CHOOSE i \in 1..Len(sources) :
                     sources[i] = src /\ \A j \in 1..(i - 1) : sources[j] # src
    IN SubSeq(sources, 1, index - 1) \o SubSeq(sources, index + 1, Len(sources))

(* remove_source: both `.expect`s.                                          *)
RemoveSourceAborts(sources, src, target) ==
    \/ ~TinyMapHas(sources, target)
    \/ ~Contains(TinyMapGet(sources, target), src)

remove_source(sources, src, target) ==
    TinyMapInsert(sources, target, VecRemoveFirst(TinyMapGet(sources, target), src))

(* set_target aborts in remove_source (Occupied), in the borrowed diagram's *)
(* get_on_* assert or in its own `.expect` (Vacant).                        *)
SetTargetAborts(g, p, arm, src) ==
    IF TinyMapHas(p[PatchTargets(arm)], src)
    THEN LET old_target == TinyMapGet(p[PatchTargets(arm)], src)
         IN old_target # None /\ RemoveSourceAborts(p[PatchSources(arm)], src, old_target)
    ELSE \/ src >= DiagramLen(g)
         \/ LET old_target == DiagramOldTarget(g, arm, src)
            IN old_target # None /\ ~Contains(DiagramSources(g, arm, old_target), src)

(* set_target: in the Vacant case the old target's patched source list is   *)
(* set to the borrowed diagram's list without src (`sources.insert`).       *)
set_target(g, p, arm, src, target) ==
    IF TinyMapHas(p[PatchTargets(arm)], src)
    THEN LET old_target == TinyMapGet(p[PatchTargets(arm)], src)
             sources == IF old_target # None
                        THEN remove_source(p[PatchSources(arm)], src, old_target)
                        ELSE p[PatchSources(arm)]
         IN [p EXCEPT ![PatchTargets(arm)] = TinyMapInsert(@, src, target),
                      ![PatchSources(arm)] = sources]
    ELSE LET old_target == DiagramOldTarget(g, arm, src)
             sources == IF old_target # None
                        THEN TinyMapInsert(p[PatchSources(arm)], old_target,
                                 VecRemoveFirst(DiagramSources(g, arm, old_target), src))
                        ELSE p[PatchSources(arm)]
         IN [p EXCEPT ![PatchTargets(arm)] = Append(@, [key |-> src, value |-> target]),
                      ![PatchSources(arm)] = sources]

(* set_sources: in the Vacant case the borrowed diagram's get_*_sources     *)
(* asserts target < len.                                                    *)
SetSourcesAborts(g, sources, target) ==
    ~TinyMapHas(sources, target) /\ target >= DiagramLen(g)

set_sources(g, sources, arm, src, target) ==
    IF TinyMapHas(sources, target)
    THEN TinyMapInsert(sources, target, Append(TinyMapGet(sources, target), src))
    ELSE Append(sources, [key |-> target,
                          value |-> Append(DiagramSources(g, arm, target), src)])

(* impl Diagram for PatchDiagram.                                           *)
patch_insert_node(p, node) ==
    [p EXCEPT !.next_node = @ + 1, !.node_map = TinyMapInsert(@, p.next_node, node)]

PatchGetNodeAborts(g, p, index) ==
    ~TinyMapHas(p.node_map, index) /\ index >= DiagramLen(g)

patch_get_node(g, p, index) ==
    IF TinyMapHas(p.node_map, index) THEN TinyMapGet(p.node_map, index)
    ELSE get_node(g, index)

(* get_node_mut followed by the caller's write of `node` through the        *)
(* returned reference.                                                      *)
patch_get_node_mut(g, p, index, node) ==
    [p EXCEPT !.node_map = TinyMapInsert(@, index, node)]

PatchSetArmAborts(g, p, arm, src, target) ==
    \/ SetTargetAborts(g, p, arm, src)
    \/ SetSourcesAborts(g, set_target(g, p, arm, src, target)[PatchSources(arm)], target)

patch_set_arm(g, p, arm, src, target) ==
    LET p1 == set_target(g, p, arm, src, target)
    IN [p1 EXCEPT ![PatchSources(arm)] = set_sources(g, @, arm, src, target)]

patch_clear_arm(g, p, arm, src) == set_target(g, p, arm, src, None)

PatchGetArmAborts(g, p, arm, src) ==
    ~TinyMapHas(p[PatchTargets(arm)], src) /\ src >= DiagramLen(g)

patch_get_arm(g, p, arm, src) ==
    IF TinyMapHas(p[PatchTargets(arm)], src) THEN TinyMapGet(p[PatchTargets(arm)], src)
    ELSE DiagramOldTarget(g, arm, src)

PatchGetSourcesAborts(g, p, arm, target) ==
    ~TinyMapHas(p[PatchSources(arm)], target) /\ target >= DiagramLen(g)

patch_get_sources(g, p, arm, target) ==
    IF TinyMapHas(p[PatchSources(arm)], target) THEN TinyMapGet(p[PatchSources(arm)], target)
    ELSE DiagramSources(g, arm, target)

(* Sequences of calls on a PatchDiagram over a borrowed diagram, with the   *)
(* same calls applied to a copy of that diagram.                            *)

MaxPatchInserts == 1

MaxPatchSteps == 3

PatchArms == {"on_match", "on_refute"}

PatchNodeA == OutputNode(0, <<Constant(0)>>)

PatchNodeB == OutputNode(1, <<Constant(1)>>)

(* Borrowed diagrams: three nodes without arms, and three nodes where node  *)
(* 0 has both arms on node 1 and node 2 has none.                           *)
PatchBases ==
    {BlankDiagram(NumRegisters, 3, 1),
     Diagram(NumRegisters, <<PatchNodeA, PatchNodeA, PatchNodeA>>, 0,
             <<SetUpdate("on_match", 0, 1), SetUpdate("on_refute", 0, 1)>>)}

InitPatch == CallInit([op |-> "new"])

(* The borrowed diagram is built, copied and PatchDiagram::new is called.   *)
PatchNew ==
    /\ pc = "call"
    /\ ret = NoCall
    /\ \E g \in PatchBases :
          /\ diagram' = g
          /\ ret' = [op |-> "patch", aborted |-> FALSE, count |-> 0, base |-> g,
                     patch |-> PatchDiagramNew(g), copy |-> g]
    /\ call' = [op |-> "PatchDiagram::new"]
    /\ UNCHANGED <<samples, orders, evaluations, fitness, pc, mode, cur, start, eval,
                   pending, acc, nmut, history, mutation_state>>

(* One call on the patch and on the copy: the call on the patch aborts, or  *)
(* leaves the patch `after` and the copy `copy_after`.                      *)
PatchCall(c, aborts, after, copy_after) ==
    /\ pc = "call"
    /\ ret # NoCall
    /\ ret.count < MaxPatchSteps
    /\ call' = c
    /\ ret' = [ret EXCEPT !.aborted = aborts, !.count = @ + 1,
                          !.patch = IF aborts THEN @ ELSE after,
                          !.copy = copy_after]
    /\ pc' = IF aborts THEN "aborted" ELSE "call"
    /\ UNCHANGED <<diagram, samples, orders, evaluations, fitness, mode, cur, start,
                   eval, pending, acc, nmut, history, mutation_state>>

PatchNodes == 0..(ret.patch.next_node - 1)

PatchInsertNode ==
    /\ ret # NoCall
    /\ ret.patch.next_node < DiagramLen(diagram) + MaxPatchInserts
    /\ \E node \in {PatchNodeA, PatchNodeB} :
          PatchCall([op |-> "insert_node", node |-> node], FALSE,
                    patch_insert_node(ret.patch, node), insert_node(ret.copy, node))

PatchGetNodeMut ==
    /\ ret # NoCall
    /\ \E index \in PatchNodes :
          PatchCall([op |-> "get_node_mut", index |-> index],
                    PatchGetNodeAborts(diagram, ret.patch, index),
                    patch_get_node_mut(diagram, ret.patch, index, PatchNodeB),
                    [ret.copy EXCEPT !.graph[index + 1].node = PatchNodeB])

PatchSetArm ==
    /\ ret # NoCall
    /\ \E arm \in PatchArms, src \in PatchNodes, target \in PatchNodes :
          /\ ~SetArmAborts(ret.copy, arm, src, target)
          /\ PatchCall([op |-> "set_" \o arm, src |-> src, target |-> target],
                       PatchSetArmAborts(diagram, ret.patch, arm, src, target),
                       patch_set_arm(diagram, ret.patch, arm, src, target),
                       SetArm(ret.copy, arm, src, target))

PatchClearArm ==
    /\ ret # NoCall
    /\ \E arm \in PatchArms, src \in PatchNodes :
          /\ ~ClearArmAborts(ret.copy, arm, src)
          /\ PatchCall([op |-> "clear_" \o arm, src |-> src],
                       SetTargetAborts(diagram, ret.patch, arm, src),
                       patch_clear_arm(diagram, ret.patch, arm, src),
                       ClearArm(ret.copy, arm, src))

NextPatch ==
    \/ PatchNew
    \/ PatchInsertNode
    \/ PatchGetNodeMut
    \/ PatchSetArm
    \/ PatchClearArm

SpecPatch == InitPatch /\ [][NextPatch]_vars

Patched == ret # NoCall /\ ret.op = "patch"

(* The getters of the patch agree with the getters of the copy on node n.   *)
PatchAgreesAt(n) ==
    /\ ~PatchGetNodeAborts(diagram, ret.patch, n)
    /\ patch_get_node(diagram, ret.patch, n) = get_node(ret.copy, n)
    /\ \A arm \in PatchArms :
          /\ ~PatchGetArmAborts(diagram, ret.patch, arm, n)
          /\ patch_get_arm(diagram, ret.patch, arm, n) = DiagramOldTarget(ret.copy, arm, n)
          /\ ~PatchGetSourcesAborts(diagram, ret.patch, arm, n)
          /\ SeqToSet(patch_get_sources(diagram, ret.patch, arm, n))
                = SeqToSet(DiagramSources(ret.copy, arm, n))

(* C39: after any sequence of insert_node, get_node_mut, set_on_* and       *)
(* clear_on_* calls on a PatchDiagram no call has aborted, the borrowed     *)
(* diagram is as it was, and get_node, get_on_match, get_on_refute and the  *)
(* source lists (as sets) of every node are those of a copy of the borrowed *)
(* diagram that received the same calls.                                    *)
C39_PatchBehavesLikeCopy ==
    Patched =>
        /\ ~ret.aborted
        /\ diagram = ret.base
        /\ ret.patch.next_node = DiagramLen(ret.copy)
        /\ \A n \in PatchNodes : PatchAgreesAt(n)

----------------------------------------------------------------------------
(* The diagram parser, statement by statement. A statement is a top-level   *)
(* node of the text: `name: output @p()` or `name: @p() {arm} {arm}`, the   *)
(* name optional, each arm empty (`{}`) or a bare label (`{name}`).         *)

HashMapNew == [k \in {} |-> None]

HashMapInsert(m, key, value) ==
    [k \in DOMAIN m \cup {key} |-> IF k = key THEN value ELSE m[k]]

ContextNew ==
    [num_terms_for_predicate |-> HashMapNew,
     predicate_name_to_predicate |-> HashMapNew,
     node_name_to_info |-> HashMapNew]

NodeInfo(index, defined) == [index |-> index, defined |-> defined]

(* No label (an unnamed node, an empty arm) and no error.                   *)
NoLabel == ""

NoError == "Ok"

(* Context::reserve_node_name: the known info, or a placeholder Match node  *)
(* inserted into the diagram and recorded with defined: false.              *)
reserve_node_name(context, name, d) ==
    IF name \in DOMAIN context.node_name_to_info
    THEN [context |-> context, diagram |-> d, info |-> context.node_name_to_info[name]]
    ELSE LET info == NodeInfo(DiagramLen(d), FALSE)
         IN [context |-> [context EXCEPT !.node_name_to_info =
                                             HashMapInsert(@, name, info)],
             diagram |-> insert_node(d, MatchNode(0, <<>>)),
             info |-> info]

(* arm, for `{}` (None) and `{name}`.                                       *)
arm(context, d, a) ==
    IF a = NoLabel THEN [context |-> context, diagram |-> d, target |-> None]
    ELSE LET r == reserve_node_name(context, a, d)
         IN [context |-> r.context, diagram |-> r.diagram, target |-> r.info.index]

(* reserve_predicate for a numbered predicate: the comparison of the known  *)
(* number of terms is `num_terms != num_terms`, never true.                 *)
reserve_predicate(context, predicate, num_terms) ==
    IF predicate \in DOMAIN context.num_terms_for_predicate THEN context
    ELSE [context EXCEPT !.num_terms_for_predicate = HashMapInsert(@, predicate, num_terms)]

AlreadyDefined == "Node with this name was already defined"

ParseOk(context, d, index) ==
    [error |-> NoError, aborted |-> FALSE, context |-> context, diagram |-> d, index |-> index]

ParseErr(msg, context, d) ==
    [error |-> msg, aborted |-> FALSE, context |-> context, diagram |-> d, index |-> None]

ParseAborted(context, d) ==
    [error |-> NoError, aborted |-> TRUE, context |-> context, diagram |-> d, index |-> None]

(* output_node on a statement that starts with `output`.                    *)
output_node(context, d, s) ==
    LET c1 == reserve_predicate(context, s.predicate, 0)
        node == OutputNode(s.predicate, <<>>)
    IN IF s.name # NoLabel
       THEN LET r == reserve_node_name(c1, s.name, d)
                d1 == [r.diagram EXCEPT !.graph[r.info.index + 1].node = node]
            IN IF r.info.defined THEN ParseErr(AlreadyDefined, r.context, r.diagram)
               ELSE ParseOk(r.context,
                            IF s.name = "root" THEN set_root(d1, r.info.index) ELSE d1,
                            r.info.index)
       ELSE ParseOk(c1, insert_node(d, node), DiagramLen(d))

(* The two set_on_* calls that end match_node.                              *)
SetParsedArms(d, index, match_target, refute_target) ==
    LET d1 == IF match_target # None THEN set_on_match(d, index, match_target) ELSE d
    IN IF refute_target # None THEN set_on_refute(d1, index, refute_target) ELSE d1

SetParsedArmsAborts(d, index, match_target, refute_target) ==
    \/ match_target # None /\ SetArmAborts(d, "on_match", index, match_target)
    \/ /\ refute_target # None
       /\ SetArmAborts(IF match_target # None THEN set_on_match(d, index, match_target)
                       ELSE d,
                       "on_refute", index, refute_target)

(* match_node: both arms are parsed (and their labels reserved) before the  *)
(* node's own name.                                                         *)
match_node(context, d, s) ==
    LET m == arm(context, d, s.on_match)
        r == arm(m.context, m.diagram, s.on_refute)
        c1 == reserve_predicate(r.context, s.predicate, 0)
        node == MatchNode(s.predicate, <<>>)
    IN IF s.name # NoLabel
       THEN LET n == reserve_node_name(c1, s.name, r.diagram)
                index == n.info.index
                d1 == [n.diagram EXCEPT !.graph[index + 1].node = node]
                d2 == SetParsedArms(d1, index, m.target, r.target)
            IN IF n.info.defined THEN ParseErr(AlreadyDefined, n.context, n.diagram)
               ELSE IF SetParsedArmsAborts(d1, index, m.target, r.target)
               THEN ParseAborted(n.context, d1)
               ELSE ParseOk(n.context, IF s.name = "root" THEN set_root(d2, index) ELSE d2,
                            index)
       ELSE LET index == DiagramLen(r.diagram)
                d1 == insert_node(r.diagram, node)
            IN IF SetParsedArmsAborts(d1, index, m.target, r.target)
               THEN ParseAborted(c1, d1)
               ELSE ParseOk(c1, SetParsedArms(d1, index, m.target, r.target), index)

(* node_without_name: output_node first, and on its error match_node on the *)
(* same text. On a text that starts with `output`, match_node reads         *)
(* `output` as the predicate name and fails on the `(` of the term list,    *)
(* before it changes anything.                                              *)
node_without_name(context, d, s) ==
    IF s.kind = "output"
    THEN LET o == output_node(context, d, s)
         IN IF o.error = NoError THEN o ELSE ParseErr("Wrong character", o.context, o.diagram)
    ELSE match_node(context, d, s)

MaxParseNodes == 3

ParseLabels == {"a", "root"}

ParseArms == {NoLabel} \cup ParseLabels

Statements ==
    [kind : {"output"}, name : {NoLabel} \cup ParseLabels, predicate : {0, 1},
     on_match : {NoLabel}, on_refute : {NoLabel}]
    \cup [kind : {"match"}, name : {NoLabel} \cup ParseLabels, predicate : {0},
          on_match : ParseArms, on_refute : ParseArms]

(* The labels a statement refers to inside its arms.                        *)
ArmLabels(s) == {s.on_match, s.on_refute} \ {NoLabel}

InitParse == CallInit([op |-> "parse_diagram"])

(* parse_diagram: a new diagram and a new Context.                          *)
ParseState ==
    IF ret = NoCall
    THEN [op |-> "parse", count |-> 0, error |-> NoError, aborted |-> FALSE,
          context |-> ContextNew, defined |-> {}, resolved |-> {}, anonymous |-> 0]
    ELSE ret

(* One iteration of parse_diagram_inner: node(rest, context) on the next    *)
(* statement. `defined` holds the labels whose definition was parsed,       *)
(* `resolved` every (label, index) a reference or a definition produced.    *)
ParseNode ==
    /\ pc = "call"
    /\ ParseState.count < MaxParseNodes
    /\ \E s \in Statements :
          LET st == ParseState
              r == node_without_name(st.context, diagram, s)
              info == r.context.node_name_to_info
              ok == r.error = NoError /\ ~r.aborted
          IN /\ call' = [op |-> "node", statement |-> s, before |-> diagram,
                         defined_before |-> st.defined]
             /\ diagram' = r.diagram
             /\ ret' = [st EXCEPT
                           !.count = @ + 1,
                           !.error = r.error,
                           !.aborted = r.aborted,
                           !.context = r.context,
                           !.defined = IF ok /\ s.name # NoLabel THEN @ \cup {s.name} ELSE @,
                           !.resolved = @ \cup {<<l, info[l].index>> : l \in ArmLabels(s)}
                                          \cup (IF ok /\ s.name # NoLabel
                                                THEN {<<s.name, r.index>>} ELSE {}),
                           !.anonymous = IF ok /\ s.name = NoLabel THEN @ + 1 ELSE @]
             /\ pc' = IF r.aborted THEN "aborted" ELSE IF r.error # NoError THEN "done" ELSE "call"
    /\ UNCHANGED <<samples, orders, evaluations, fitness, mode, cur, start, eval,
                   pending, acc, nmut, history, mutation_state>>

NextParse == ParseNode

SpecParse == InitParse /\ [][NextParse]_vars

Parsed == ret # NoCall /\ ret.op = "parse"

(* Every reference to a label and its definition resolved to one index, and *)
(* the diagram holds one node per label and one per unnamed node.           *)
OneNodePerLabel ==
    /\ \A p \in ret.resolved : \A q \in ret.resolved : p[1] = q[1] => p[2] = q[2]
    /\ DiagramLen(diagram) = Cardinality({p[1] : p \in ret.resolved}) + ret.anonymous

(* The statement just parsed defines a label that was defined before.       *)
SecondDefinition == Parsed /\ call.statement.name \in call.defined_before

(* C40: every reference to a label, before or after its definition, and the *)
(* definition itself resolve to the same node index; the diagram gains one  *)
(* node per distinct label; a second definition of a defined label ends in  *)
(* the error "Node with this name was already defined" and leaves the node  *)
(* of the first definition as it was.                                       *)
C40_OneNodePerLabel ==
    Parsed =>
        /\ ~ret.aborted
        /\ OneNodePerLabel
        /\ SecondDefinition =>
              LET index == ret.context.node_name_to_info[call.statement.name].index
              IN /\ ret.error = AlreadyDefined
                 /\ get_node(diagram, index) = get_node(call.before, index)

====
